---- MODULE Spec2Model ----
(***************************************************************************)
(* The transport layer of the n8n KeepKey node, as state machines.         *)
(*                                                                         *)
(*   Spec           KeepKeyClient (transport/keepKeyClient), the device    *)
(*                  client: one action per public method.                  *)
(*   TransportSpec  UsbTransport, WebUsbTransport and BridgeTransport:     *)
(*                  connect, disconnect, and the bridge's call and listen  *)
(*                  loop, one action per step between two awaits.          *)
(*   FramingSpec    UsbTransport.sendMessage: the split into packets and   *)
(*                  the reassembly of the response, read by read.          *)
(*   EventSpec      KeepKeyClient.onEvent and offEvent, and the callbacks  *)
(*                  the client's operations invoke.                        *)
(*   CallSpec       KeepKeyClient.call over HTTP, one action per step      *)
(*                  between two awaits, under weak fairness.               *)
(*   TriggerSpec    KeepKeyTrigger.trigger: the polling loop, one action   *)
(*                  per step between two awaits, under weak fairness.      *)
(*                                                                         *)
(* The bridge daemon, the desktop app, the USB stack and the device are    *)
(* the environment, whose answers are the inputs of the actions.           *)
(***************************************************************************)
EXTENDS Integers, Sequences, FiniteSets, TLC

VARIABLES
  connectionType,  \* config.connectionType
  devicePath,      \* config.devicePath ("" when not configured)
  connected,       \* KeepKeyClient.connected
  device,          \* KeepKeyClient.device
  sessionId,       \* KeepKeyClient.sessionId
  daemon,          \* what the bridge daemon enumerates: sequence of [path, session]
  nextToken,       \* the next session token the bridge daemon issues
  awaiting,        \* the confirmation the device asked for in its last response
  pinFlow,         \* where the caller is in a PIN entry started by changePin()
  last,            \* the last operation of the caller and what it did
  listeners,       \* the callbacks subscribed on the client, by event name
  pending,         \* the HTTP request of KeepKeyClient.call that awaits its response
  trigger,         \* the closure of KeepKeyTrigger.trigger and the timer of its poll
  execution,       \* KeepKey.execute: where it is and what it has done
  util,            \* a utility function under evaluation: its arguments and result
  transport,       \* the fields of a UsbTransport, WebUsbTransport or BridgeTransport
  inflight,        \* the requests of the BridgeTransport that await their response
  granted,         \* the session tokens the daemon issued to the BridgeTransport
  tlast,           \* the last step of the transport and what it did
  framing          \* UsbTransport.sendMessage: its arguments, locals and result

\* The fields of the KeepKeyClient and what is recorded of its operations.
clientFields == <<connectionType, devicePath, connected, device, sessionId,
                  awaiting, pinFlow, last>>
\* The bridge daemon, which the client and the BridgeTransport both talk to.
daemonVars == <<daemon, nextToken>>
\* What the host of the client holds: its subscriptions, its call in flight,
\* the trigger node, the action node and the utility functions it evaluates.
hostVars == <<listeners, pending, trigger, execution, util>>
transportVars == <<transport, inflight, granted, tlast>>

vars == <<clientFields, daemonVars, hostVars, transportVars, framing>>

----------------------------------------------------------------------------
(* Bounds of the model *)

\* Session tokens the bridge daemon can issue in one behaviour.
MaxTokens == 3

----------------------------------------------------------------------------
(* Constants of the program *)

USB_HID == "usbHid"
WEBUSB == "webusb"
KEEPKEY_DESKTOP == "keepkeyDesktop"
KEEPKEY_BRIDGE == "keepkeyBridge"
CONNECTION_TYPES == {USB_HID, WEBUSB, KEEPKEY_DESKTOP, KEEPKEY_BRIDGE}

\* DEVICE_EVENTS
CONNECTED == "device:connected"
DISCONNECTED == "device:disconnected"
BUTTON_REQUEST == "device:buttonRequest"
PIN_REQUEST == "device:pinRequest"
PASSPHRASE_REQUEST == "device:passphraseRequest"
WORD_REQUEST == "device:wordRequest"
FAILURE == "device:failure"

\* sessionId: string | null = null; a token is a positive number here.
NullSession == 0
\* `session.session` of an acquire answer that carries no session field.
UndefinedSession == -1
Tokens == 1..MaxTokens

\* Message types the device answers with (MESSAGE_TYPES, by name).
ResponseTypes == {"Success", "Failure", "Features", "Entropy", "ButtonRequest",
                  "PinMatrixRequest", "PassphraseRequest", "WordRequest"}

\* The payload (`message`) of a response of each type.
Payload(t) ==
  CASE t = "Success" -> "success-message"
    [] t = "Failure" -> "failure-message"
    [] t = "Features" -> "features"
    [] t = "Entropy" -> "entropy-message"
    [] t = "ButtonRequest" -> "button-request"
    [] t = "PinMatrixRequest" -> "pin-matrix-request"
    [] t = "PassphraseRequest" -> "passphrase-request"
    [] t = "WordRequest" -> "word-request"
    [] OTHER -> "undefined"

\* features.label: only a Features payload carries a label.
LabelOf(message) == IF message = "features" THEN "label" ELSE "undefined"

----------------------------------------------------------------------------
(* What the medium answers to one HTTP request *)

\* fetch() rejected: the daemon or the app is unreachable, or the request timed out.
NetFail == [type |-> "<fetch rejected>", message |-> "undefined"]
\* The body of an answer with an error status, a JSON body that is no device
\* response ({ "error": ... }): type and message undefined.
ErrorBody == [type |-> "undefined", message |-> "undefined"]
\* A device response {type, message}.
DeviceReplies == {[type |-> t, message |-> Payload(t)] : t \in ResponseTypes}
Replies == DeviceReplies \cup {NetFail, ErrorBody}

\* What the medium can answer to a message of this type.  The device answers
\* Initialize with its Features or with a Failure; any response can follow the
\* other messages.
AnswersTo(type) ==
  IF type = "Initialize"
    THEN {r \in Replies : r.type \in {"Features", "Failure"}} \cup {NetFail, ErrorBody}
    ELSE Replies

NoResponse == [type |-> "none", message |-> "none"]

\* device: KeepKeyDevice | null
NullDevice == [null |-> TRUE, path |-> "", features |-> "undefined", label |-> "undefined"]
Device(path, features, label) ==
  [null |-> FALSE, path |-> path, features |-> features, label |-> label]

\* A request put on the medium.
Request(endpoint, path, session, type) ==
  [endpoint |-> endpoint, path |-> path, session |-> session, type |-> type]

\* The outcome of a (part of a) handler: thrown or returned, with what it sent,
\* emitted and received on the way.
\* raised is the error as the transport raised it ("none" when the transport
\* raised none): see Raise.
Throw(error, sent, emitted, received) ==
  [status |-> "throw", error |-> error, response |-> NoResponse,
   sent |-> sent, emitted |-> emitted, received |-> received, raised |-> "none"]
Return(response, sent, emitted, received) ==
  [status |-> "ok", error |-> "none", response |-> response,
   sent |-> sent, emitted |-> emitted, received |-> received, raised |-> "none"]
\* An error thrown below the client's methods: by fetch(), or by the stub of a
\* transport that is not implemented.
Raise(error, sent, emitted, received) ==
  [Throw(error, sent, emitted, received) EXCEPT !.raised = error]

Event(name, payload) == [event |-> name, payload |-> payload]

----------------------------------------------------------------------------
(* KeepKeyClient.call and the transport-specific calls *)

callUsbHid(type) ==
  Raise("USB HID transport requires native module", <<>>, <<>>, <<>>)

\* callWebUsb() that resolves without a response.
callWebUsbUnanswered(type) == Return(NoResponse, <<>>, <<>>, <<>>)

callWebUsb(type) ==
  Raise("WebUSB transport requires browser environment", <<>>, <<>>, <<>>)

\* fetch(`${url}/call`), then response.json(): the body is returned as it is.
callDesktop(type, reply) ==
  LET req == Request("POST /call", "", NullSession, type) IN
  IF reply = NetFail
    THEN Raise("fetch failed", <<req>>, <<>>, <<>>)
    ELSE Return(reply, <<req>>, <<>>, <<reply>>)

\* fetch(`${url}/call/${this.sessionId}`), then response.json().
callBridge(sid, type, reply) ==
  LET req == Request("POST /call/{session}", "", sid, type) IN
  IF reply = NetFail
    THEN Raise("fetch failed", <<req>>, <<>>, <<>>)
    ELSE Return(reply, <<req>>, <<>>, <<reply>>)

\* call() without its guard on this.connected.
callUnguarded(conn, sid, type, reply) ==
  CASE connectionType = USB_HID -> callUsbHid(type)
    [] connectionType = WEBUSB -> callWebUsb(type)
    [] connectionType = KEEPKEY_DESKTOP -> callDesktop(type, reply)
    [] connectionType = KEEPKEY_BRIDGE -> callBridge(sid, type, reply)
    [] OTHER -> Throw("Unsupported connection type", <<>>, <<>>, <<>>)

\* conn and sid are this.connected and this.sessionId when the call is made;
\* reply is what the medium answers if a request is made.
call(conn, sid, type, reply) ==
  IF ~conn
    THEN Throw("Device not connected", <<>>, <<>>, <<>>)
    ELSE CASE connectionType = USB_HID -> callUsbHid(type)
           [] connectionType = WEBUSB -> callWebUsb(type)
           [] connectionType = KEEPKEY_DESKTOP -> callDesktop(type, reply)
           [] connectionType = KEEPKEY_BRIDGE -> callBridge(sid, type, reply)
           [] OTHER -> Throw("Unsupported connection type", <<>>, <<>>, <<>>)

sendButtonAck(conn, sid, reply) == call(conn, sid, "ButtonAck", reply)

\* r1 answers the request, r2 the ButtonAck (if one is sent).
callWithButtonAck(conn, sid, type, r1, r2) ==
  LET c1 == call(conn, sid, type, r1) IN
  IF c1.status = "throw" THEN c1
  ELSE IF c1.response.type = "ButtonRequest"
    THEN LET ev == <<Event(BUTTON_REQUEST, c1.response.message)>>
             c2 == sendButtonAck(conn, sid, r2)
         IN [c2 EXCEPT !.sent = c1.sent \o c2.sent,
                       !.emitted = ev,
                       !.received = c1.received \o c2.received]
    ELSE c1

callWithPinMatrix(conn, sid, type, r1) ==
  LET c1 == call(conn, sid, type, r1) IN
  IF c1.status = "throw" THEN c1
  ELSE IF c1.response.type = "PinMatrixRequest"
    THEN [c1 EXCEPT !.emitted = <<Event(PIN_REQUEST, c1.response.message)>>]
    ELSE c1

callWithRecovery(conn, sid, type, r1) ==
  LET c1 == call(conn, sid, type, r1) IN
  IF c1.status = "throw" THEN c1
  ELSE IF c1.response.type = "WordRequest"
    THEN [c1 EXCEPT !.emitted = <<Event(WORD_REQUEST, c1.response.message)>>]
    ELSE c1

----------------------------------------------------------------------------
(* The device and the bridge daemon, as the client sees them *)

\* The confirmation a response of this type asks the caller for.
AwaitOf(type) ==
  CASE type = "ButtonRequest" -> "button"
    [] type = "PinMatrixRequest" -> "pin"
    [] type = "PassphraseRequest" -> "passphrase"
    [] type = "WordRequest" -> "word"
    [] OTHER -> "none"

\* The device's outstanding confirmation after the bodies the client received:
\* the one its last response asks for (an error body is no response of the device).
AwaitingAfter(received) ==
  LET responses == SelectSeq(received, LAMBDA r : r \in DeviceReplies) IN
  IF responses = <<>> THEN awaiting ELSE AwaitOf(responses[Len(responses)].type)

\* The daemon holds session sid for one of the devices it lists.
Leased(sid, enumeration) ==
  /\ sid \in Tokens
  /\ \E i \in 1..Len(enumeration) : enumeration[i].session = sid

\* What the medium can answer to a message of this type sent on session sid: the
\* daemon passes a message to the device only on a session it holds.
AnswersOn(type, sid, enumeration) ==
  IF connectionType = KEEPKEY_BRIDGE /\ ~Leased(sid, enumeration)
    THEN {NetFail, ErrorBody}
    ELSE AnswersTo(type)

Answers(type) == AnswersOn(type, sessionId, daemon)

\* Where a PIN entry started by changePin() stands after operation op: "requested"
\* once changePin() has returned a PinMatrixRequest, "acked" once a sendPin() has
\* answered it and the device asked for no further PIN, "none" after anything else.
PinFlowAfter(op, out) ==
  IF op = "changePin"
    THEN IF out.status = "ok" /\ out.response.type = "PinMatrixRequest"
           THEN "requested" ELSE "none"
  ELSE IF op = "sendPin" /\ pinFlow = "requested"
    THEN IF out.status = "ok" /\ out.response \in DeviceReplies
              /\ out.response.type # "PinMatrixRequest"
           THEN "acked" ELSE "requested"
  ELSE IF op = "sendPin" /\ pinFlow = "acked" THEN "acked"
  ELSE "none"

\* The session the daemon reports for a path (NullSession if none or not listed).
DaemonSession(path) ==
  IF \E i \in 1..Len(daemon) : daemon[i].path = path
    THEN daemon[CHOOSE i \in 1..Len(daemon) : daemon[i].path = path].session
    ELSE NullSession

Listed(path) == \E i \in 1..Len(daemon) : daemon[i].path = path

\* The client holds a session token and the daemon reports, for the held path,
\* another session.
Stale ==
  /\ connectionType = KEEPKEY_BRIDGE
  /\ connected
  /\ ~device.null
  /\ sessionId \in Tokens
  /\ Listed(device.path)
  /\ DaemonSession(device.path) # sessionId

----------------------------------------------------------------------------
(* The Event channel: KeepKeyClient extends EventEmitter *)

\* The event names the client emits and a caller subscribes to.
KeepKeyEvents == {CONNECTED, DISCONNECTED, BUTTON_REQUEST, PIN_REQUEST,
                  PASSPHRASE_REQUEST, WORD_REQUEST, FAILURE}

NoListeners == [e \in KeepKeyEvents |-> <<>>]

\* A call of a subscribed callback.
Invocation(callback, ev) ==
  [callback |-> callback, event |-> ev.event, payload |-> ev.payload]

\* emit() that calls the listener registered last first.
emitNewestFirst(ls, ev) ==
  LET n == Len(ls[ev.event]) IN
  [i \in 1..n |-> Invocation(ls[ev.event][n + 1 - i], ev)]

\* this.emit(event, payload): the listeners of the event are called one after the
\* other, in the order of their registration, before emit() returns.
emit(ls, ev) ==
  [i \in 1..Len(ls[ev.event]) |-> Invocation(ls[ev.event][i], ev)]

\* The callbacks an operation invokes: those of its emissions, in their order.
RECURSIVE Deliver(_, _)
Deliver(ls, emitted) ==
  IF emitted = <<>> THEN <<>>
  ELSE emit(ls, Head(emitted)) \o Deliver(ls, Tail(emitted))

\* No call of the client awaits the response to its HTTP request.
NoPending == [type |-> "none", session |-> NullSession, settled |-> FALSE,
              reply |-> NoResponse]

\* No trigger node runs.
NoTrigger == [pc |-> "none", event |-> "none", isRunning |-> FALSE,
              lastDeviceState |-> "null", items |-> <<>>, polls |-> 0,
              closed |-> FALSE]

\* No execution of the KeepKey node is under way.
NoExecution == [pc |-> "none", operation |-> "none", items |-> 0,
                continueOnFail |-> FALSE, i |-> 0, calls |-> <<>>,
                returnData |-> <<>>, thrown |-> "none"]
\* No utility function is under evaluation.
NoUtil == [fn |-> "none"]
\* What is recorded of an operation: the state it started from, its outcome and
\* the callbacks its emissions invoked.
Done(op, out) ==
  [op |-> op, wasConnected |-> connected, wasStale |-> Stale,
   status |-> out.status, error |-> out.error, response |-> out.response,
   sent |-> out.sent, emitted |-> out.emitted, received |-> out.received,
   raised |-> out.raised, invoked |-> Deliver(listeners, out.emitted)]

\* No operation yet.
NoOperation ==
  [op |-> "new", wasConnected |-> FALSE, wasStale |-> FALSE,
   status |-> "ok", error |-> "none", response |-> NoResponse,
   sent |-> <<>>, emitted |-> <<>>, received |-> <<>>,
   raised |-> "none", invoked |-> <<>>]

----------------------------------------------------------------------------
(* connect *)

\* connect() whose catch throws an error of its own.
connectCatchWrapping(out) ==
  IF out.status = "throw"
    THEN [out EXCEPT !.emitted = @ \o <<Event(FAILURE, out.error)>>,
                     !.error = "Failed to connect"]
    ELSE out

\* connect(): catch (error) { this.emit(DEVICE_EVENTS.FAILURE, error); throw error; }
connectCatch(out) ==
  IF out.status = "throw"
    THEN [out EXCEPT !.emitted = @ \o <<Event(FAILURE, out.error)>>]
    ELSE out

\* The end of connectUsbHid, connectWebUsb and connectBridge, once this.device = dev
\* and this.connected = true: getFeatures(), features and label stored on the
\* device, CONNECTED emitted.  sent is what the handler has sent so far.
initializeDevice(dev, sid, reply, sent) ==
  LET c == call(TRUE, sid, "Initialize", reply)
      features == c.response.message
  IN IF c.status = "throw"
       THEN [device |-> dev,
             out |-> [c EXCEPT !.sent = sent \o c.sent]]
     ELSE IF features = "undefined"
       \* this.device.features = undefined; features.label throws a TypeError
       THEN [device |-> dev,
             out |-> Throw("TypeError", sent \o c.sent, <<>>, c.received)]
     ELSE [device |-> Device(dev.path, features, LabelOf(features)),
           out |-> Return(c.response, sent \o c.sent,
                          <<Event(CONNECTED, dev.path)>>, c.received)]

connectUsbHid ==
  /\ connectionType = USB_HID
  /\ \E reply \in AnswersTo("Initialize") :
       LET r == initializeDevice(Device(devicePath, "undefined", "undefined"),
                                 sessionId, reply, <<>>)
       IN /\ device' = r.device
          /\ connected' = TRUE
          /\ awaiting' = AwaitingAfter(r.out.received)
          /\ last' = Done("connect", connectCatch(r.out))
  /\ pinFlow' = "none"
  /\ UNCHANGED <<transportVars, framing, hostVars, connectionType, devicePath, sessionId, daemon, nextToken>>

connectWebUsb ==
  /\ connectionType = WEBUSB
  /\ \E reply \in AnswersTo("Initialize") :
       LET r == initializeDevice(Device("webusb", "undefined", "undefined"),
                                 sessionId, reply, <<>>)
       IN /\ device' = r.device
          /\ connected' = TRUE
          /\ awaiting' = AwaitingAfter(r.out.received)
          /\ last' = Done("connect", connectCatch(r.out))
  /\ pinFlow' = "none"
  /\ UNCHANGED <<transportVars, framing, hostVars, connectionType, devicePath, sessionId, daemon, nextToken>>

\* What the desktop app can answer to GET /devices.
DesktopLists ==
  { <<>>,
    <<Device("/dev/hid0", "undefined", "undefined")>>,
    <<Device("/dev/hid0", "features", "label")>>,
    <<Device("/dev/hid1", "undefined", "undefined"),
      Device("/dev/hid0", "features", "label")>> }

connectDesktop ==
  /\ connectionType = KEEPKEY_DESKTOP
  /\ \E fetched \in BOOLEAN, devices \in DesktopLists :
       LET req == Request("GET /devices", "", NullSession, "none") IN
       IF ~fetched
         THEN /\ last' = Done("connect",
                              connectCatch(Raise("fetch failed", <<req>>, <<>>, <<>>)))
              /\ UNCHANGED <<device, connected>>
       ELSE IF Len(devices) = 0
         THEN /\ last' = Done("connect",
                              connectCatch(Throw("No KeepKey device found via Desktop",
                                                 <<req>>, <<>>, <<>>)))
              /\ UNCHANGED <<device, connected>>
       ELSE /\ device' = devices[1]
            /\ connected' = TRUE
            /\ last' = Done("connect",
                            Return(NoResponse, <<req>>,
                                   <<Event(CONNECTED, devices[1].path)>>, <<>>))
  /\ pinFlow' = "none"
  /\ UNCHANGED <<transportVars, framing, hostVars, connectionType, devicePath, sessionId, daemon, nextToken, awaiting>>

\* What the daemon can answer to POST /acquire: the request is rejected, the body
\* carries no session, or the body carries a fresh session.
AcquireAnswers == {"rejected", "no-session", "session"}

connectBridge ==
  /\ connectionType = KEEPKEY_BRIDGE
  /\ \E fetched \in BOOLEAN, acquired \in AcquireAnswers, reply \in Replies :
       LET reqE == Request("GET /enumerate", "", NullSession, "none") IN
       IF ~fetched
         THEN /\ last' = Done("connect",
                              connectCatch(Raise("fetch failed", <<reqE>>, <<>>, <<>>)))
              /\ UNCHANGED <<device, connected, sessionId, daemon, nextToken, awaiting>>
       ELSE IF Len(daemon) = 0
         THEN /\ last' = Done("connect",
                              connectCatch(Throw("No KeepKey device found via Bridge",
                                                 <<reqE>>, <<>>, <<>>)))
              /\ UNCHANGED <<device, connected, sessionId, daemon, nextToken, awaiting>>
       ELSE
         LET deviceInfo == daemon[1]
             \* `${deviceInfo.session || 'null'}`
             reqA == Request("POST /acquire", deviceInfo.path, deviceInfo.session, "none")
         IN IF acquired = "rejected"
              THEN /\ last' = Done("connect",
                                   connectCatch(Raise("fetch failed", <<reqE, reqA>>,
                                                      <<>>, <<>>)))
                   /\ UNCHANGED <<device, connected, sessionId, daemon, nextToken, awaiting>>
            ELSE
              /\ acquired = "session" => nextToken <= MaxTokens
              /\ LET sid == IF acquired = "session" THEN nextToken ELSE UndefinedSession
                     leases == IF acquired = "session"
                                 THEN [daemon EXCEPT ![1].session = nextToken]
                                 ELSE daemon
                     r == initializeDevice(
                            Device(deviceInfo.path, "undefined", "undefined"),
                            sid, reply, <<reqE, reqA>>)
                 IN /\ reply \in AnswersOn("Initialize", sid, leases)
                    /\ sessionId' = sid
                    /\ daemon' = leases
                    /\ nextToken' = IF acquired = "session"
                                      THEN nextToken + 1 ELSE nextToken
                    /\ device' = r.device
                    /\ connected' = TRUE
                    /\ awaiting' = AwaitingAfter(r.out.received)
                    /\ last' = Done("connect", connectCatch(r.out))
  /\ pinFlow' = "none"
  /\ UNCHANGED <<transportVars, framing, hostVars, connectionType, devicePath>>

connect == connectUsbHid \/ connectWebUsb \/ connectDesktop \/ connectBridge

----------------------------------------------------------------------------
(* disconnect *)

\* The try block of disconnect(): clearSession(), then the fields are cleared and
\* DISCONNECTED is emitted; an error of clearSession() is thrown again.
disconnectTeardown ==
  \E reply \in Answers("ClearSession") :
    LET c == call(connected, sessionId, "ClearSession", reply) IN
    IF c.status = "throw"
      THEN /\ last' = Done("disconnect",
                           Throw("Failed to disconnect", c.sent, <<>>, c.received))
           /\ awaiting' = AwaitingAfter(c.received)
           /\ UNCHANGED <<connected, device, sessionId>>
      ELSE /\ connected' = FALSE
           /\ device' = NullDevice
           /\ sessionId' = NullSession
           /\ awaiting' = AwaitingAfter(c.received)
           /\ last' = Done("disconnect",
                           Return(NoResponse, c.sent,
                                  <<Event(DISCONNECTED, "undefined")>>, c.received))

\* disconnect() without its guard on this.connected.
disconnectUnguarded ==
  /\ disconnectTeardown
  /\ pinFlow' = "none"
  /\ UNCHANGED <<transportVars, framing, hostVars, connectionType, devicePath, daemon, nextToken>>

disconnect ==
  /\ IF ~connected
       THEN /\ last' = Done("disconnect", Return(NoResponse, <<>>, <<>>, <<>>))
            /\ UNCHANGED <<connected, device, sessionId, awaiting>>
       ELSE disconnectTeardown
  /\ pinFlow' = "none"
  /\ UNCHANGED <<transportVars, framing, hostVars, connectionType, devicePath, daemon, nextToken>>

isConnected == connected /\ ~device.null

getDevice == device

----------------------------------------------------------------------------
(* The wrappers over call() *)

\* A wrapper that makes one call and keeps the client's fields.
Wrapper(op, out) ==
  /\ last' = Done(op, out)
  /\ awaiting' = AwaitingAfter(out.received)
  /\ pinFlow' = PinFlowAfter(op, out)
  /\ UNCHANGED <<transportVars, framing, hostVars, connectionType, devicePath, connected, device, sessionId,
                 daemon, nextToken>>

\* return response.message
getFeatures ==
  \E reply \in Answers("Initialize") :
    Wrapper("getFeatures", call(connected, sessionId, "Initialize", reply))

\* return response.message.message: a TypeError when the body has no message
ping ==
  \E reply \in Answers("Ping") :
    LET c == call(connected, sessionId, "Ping", reply) IN
    Wrapper("ping",
            IF c.status = "ok" /\ c.response.message = "undefined"
              THEN Throw("TypeError", c.sent, c.emitted, c.received)
              ELSE c)

\* Buffer.from(response.message.entropy, 'hex'): a TypeError unless the message
\* carries an entropy string
getEntropy ==
  \E reply \in Answers("GetEntropy") :
    LET c == call(connected, sessionId, "GetEntropy", reply) IN
    Wrapper("getEntropy",
            IF c.status = "ok" /\ c.response.type # "Entropy"
              THEN Throw("TypeError", c.sent, c.emitted, c.received)
              ELSE c)

cancel ==
  \E reply \in Answers("Cancel") :
    Wrapper("cancel", call(connected, sessionId, "Cancel", reply))

\* clearSession() that drops the session before the call is answered.
clearSessionEager ==
  \E reply \in Answers("ClearSession") :
    LET c == call(connected, sessionId, "ClearSession", reply) IN
    /\ last' = Done("clearSession", c)
    /\ awaiting' = AwaitingAfter(c.received)
    /\ pinFlow' = "none"
    /\ sessionId' = NullSession
    /\ UNCHANGED <<transportVars, framing, hostVars, connectionType, devicePath, connected, device, daemon, nextToken>>

\* sessionId is cleared once the call has returned.
clearSession ==
  \E reply \in Answers("ClearSession") :
    LET c == call(connected, sessionId, "ClearSession", reply) IN
    /\ last' = Done("clearSession", c)
    /\ awaiting' = AwaitingAfter(c.received)
    /\ pinFlow' = "none"
    /\ sessionId' = IF c.status = "ok" THEN NullSession ELSE sessionId
    /\ UNCHANGED <<transportVars, framing, hostVars, connectionType, devicePath, connected, device, daemon, nextToken>>

sendPin ==
  \E reply \in Answers("PinMatrixAck") :
    Wrapper("sendPin", call(connected, sessionId, "PinMatrixAck", reply))

sendPassphrase ==
  \E reply \in Answers("PassphraseAck") :
    Wrapper("sendPassphrase", call(connected, sessionId, "PassphraseAck", reply))

sendWord ==
  \E reply \in Answers("WordAck") :
    Wrapper("sendWord", call(connected, sessionId, "WordAck", reply))

buttonAck ==
  \E reply \in Answers("ButtonAck") :
    Wrapper("sendButtonAck", sendButtonAck(connected, sessionId, reply))

----------------------------------------------------------------------------
(* The interactive operations *)

\* r2 answers a ButtonAck: there is one to answer only after a ButtonRequest.
AckAnswered(r1, r2) == r1.type # "ButtonRequest" => r2 = NetFail

applySettings ==
  \E r1 \in Answers("ApplySettings"), r2 \in Answers("ButtonAck") :
    /\ AckAnswered(r1, r2)
    /\ Wrapper("applySettings",
               callWithButtonAck(connected, sessionId, "ApplySettings", r1, r2))

wipeDevice ==
  \E r1 \in Answers("WipeDevice"), r2 \in Answers("ButtonAck") :
    /\ AckAnswered(r1, r2)
    /\ Wrapper("wipeDevice",
               callWithButtonAck(connected, sessionId, "WipeDevice", r1, r2))

resetDevice ==
  \E r1 \in Answers("ResetDevice"), r2 \in Answers("ButtonAck") :
    /\ AckAnswered(r1, r2)
    /\ Wrapper("resetDevice",
               callWithButtonAck(connected, sessionId, "ResetDevice", r1, r2))

recoverDevice ==
  \E r1 \in Answers("RecoveryDevice") :
    Wrapper("recoverDevice",
            callWithRecovery(connected, sessionId, "RecoveryDevice", r1))

changePin ==
  \E r1 \in Answers("ChangePin") :
    Wrapper("changePin",
            callWithPinMatrix(connected, sessionId, "ChangePin", r1))

----------------------------------------------------------------------------
(* The bridge daemon's other clients *)

\* Another client of the daemon acquires the device this client selects
\* (devices[0], the only entry whose session the client reads): its session rotates.
DaemonRotate ==
  /\ connectionType = KEEPKEY_BRIDGE
  /\ nextToken <= MaxTokens
  /\ Len(daemon) > 0
  /\ daemon' = [daemon EXCEPT ![1].session = nextToken]
  /\ nextToken' = nextToken + 1
  /\ UNCHANGED <<transportVars, framing, hostVars, connectionType, devicePath, connected, device, sessionId,
                 awaiting, pinFlow, last>>

\* The device that the client or the transport holds is unplugged: the daemon
\* enumerates it no longer.
DeviceUnplug ==
  /\ \E i \in 1..Len(daemon) :
       /\ daemon[i].path \in {device.path, transport.device}
       /\ daemon' = SubSeq(daemon, 1, i - 1) \o SubSeq(daemon, i + 1, Len(daemon))
  /\ UNCHANGED <<clientFields, hostVars, nextToken, transportVars, framing>>

----------------------------------------------------------------------------
(* The specification *)

\* What the daemon can enumerate when the client is constructed: no session yet.
Enumerations ==
  { <<>>,
    <<[path |-> "/dev/hid0", session |-> NullSession]>>,
    <<[path |-> "/dev/hid1", session |-> NullSession],
      [path |-> "/dev/hid0", session |-> NullSession]>> }

\* new KeepKeyClient(config)
Init ==
  /\ connectionType \in CONNECTION_TYPES
  \* only connectUsbHid reads config.devicePath
  /\ devicePath \in IF connectionType = USB_HID THEN {"", "/dev/hid0"} ELSE {""}
  /\ connected = FALSE
  /\ device = NullDevice
  /\ sessionId = NullSession
  \* only connectBridge reads the daemon's enumeration
  /\ daemon \in IF connectionType = KEEPKEY_BRIDGE THEN Enumerations ELSE {<<>>}
  /\ nextToken = 1
  /\ awaiting = "none"
  /\ pinFlow = "none"
  /\ last = NoOperation
  \* no callback is subscribed, no call awaits its response, no trigger runs
  /\ listeners = NoListeners
  /\ pending = NoPending
  /\ trigger = NoTrigger
  /\ execution = NoExecution
  /\ util = NoUtil
  \* no transport instance is at work beside the client
  /\ transport = [kind |-> "none", connected |-> FALSE, device |-> "null",
                  deviceSession |-> NullSession,
                  session |-> NullSession, handle |-> "null",
                  listenController |-> "null"]
  /\ inflight = [call |-> [endpoint |-> "none", session |-> NullSession,
                           aborted |-> FALSE],
                 listen |-> [endpoint |-> "none", session |-> NullSession,
                             aborted |-> FALSE]]
  /\ granted = {}
  /\ tlast = [op |-> "new", arg |-> "", wasConnected |-> FALSE, enumerated |-> <<>>,
              wasSession |-> NullSession,
              answer |-> "none", status |-> "ok", error |-> "none",
              response |-> NoResponse, sent |-> <<>>, emitted |-> <<>>]
  /\ framing = [pc |-> "none"]

Next ==
  \/ connect
  \/ disconnect
  \/ getFeatures
  \/ ping
  \/ getEntropy
  \/ cancel
  \/ clearSession
  \/ sendPin
  \/ sendPassphrase
  \/ sendWord
  \/ buttonAck
  \/ applySettings
  \/ wipeDevice
  \/ resetDevice
  \/ recoverDevice
  \/ changePin
  \/ DaemonRotate

Spec == Init /\ [][Next]_vars

----------------------------------------------------------------------------
(* The Message Registry *)

\* MESSAGE_TYPES: the codes of the messages the transports name.
MESSAGE_TYPES ==
  [Initialize |-> 0, Ping |-> 1, Success |-> 2, Failure |-> 3, ChangePin |-> 4,
   WipeDevice |-> 5, GetEntropy |-> 9, Entropy |-> 10, ResetDevice |-> 14,
   Features |-> 17, PinMatrixRequest |-> 18, PinMatrixAck |-> 19, Cancel |-> 20,
   ClearSession |-> 24, ApplySettings |-> 25, ButtonRequest |-> 26, ButtonAck |-> 27,
   PassphraseRequest |-> 41, PassphraseAck |-> 42, RecoveryDevice |-> 45,
   WordRequest |-> 46, WordAck |-> 47]

----------------------------------------------------------------------------
(* UsbTransport.sendMessage: framing *)

\* Bound: the longest payload sent.
MaxPayload == 121

\* USB_CONFIG.PACKET_SIZE
PACKET_SIZE == 64
\* 0x3f, the protocol marker
PROTOCOL_MARKER == 63
\* Buffer.alloc(7): marker, type (2 bytes), length (4 bytes)
HEADER_SIZE == 7

Min(a, b) == IF a < b THEN a ELSE b

\* Buffer.alloc(n)
Zeros(n) == [i \in 1..n |-> 0]

\* buf.writeUInt16BE(v, _) and buf.writeUInt32BE(v, _): the bytes written
UInt16BE(v) == <<(v \div 256) % 256, v % 256>>
UInt32BE(v) ==
  <<(v \div 16777216) % 256, (v \div 65536) % 256, (v \div 256) % 256, v % 256>>

\* buf.readUInt16BE(offset) and buf.readUInt32BE(offset), offsets counted from 0
readUInt16BE(buf, offset) == buf[offset + 1] * 256 + buf[offset + 2]
readUInt32BE(buf, offset) ==
  buf[offset + 1] * 16777216 + buf[offset + 2] * 65536
    + buf[offset + 3] * 256 + buf[offset + 4]

\* buf.subarray(start), start counted from 0
subarray(buf, start) == SubSeq(buf, start + 1, Len(buf))

\* The header sendMessage builds, and header followed by the message.
Header(messageType, message) ==
  <<PROTOCOL_MARKER>> \o UInt16BE(messageType) \o UInt32BE(Len(message))

FullMessage(messageType, message) == Header(messageType, message) \o message

\* The packet of the loop at offset i of fullMessage: PACKET_SIZE zero bytes, the
\* marker at 0, and fullMessage[i .. min(i + PACKET_SIZE - 1, length)) copied at 1.
PacketAt(fullMessage, i) ==
  LET chunk == SubSeq(fullMessage, i + 1, Min(i + PACKET_SIZE - 1, Len(fullMessage)))
  IN <<PROTOCOL_MARKER>> \o chunk \o Zeros(PACKET_SIZE - 1 - Len(chunk))

\* for (let i = 0; i < fullMessage.length; i += PACKET_SIZE - 1): the packets.
Packets(fullMessage) ==
  LET n == (Len(fullMessage) + PACKET_SIZE - 2) \div (PACKET_SIZE - 1)
  IN [k \in 1..n |-> PacketAt(fullMessage, (k - 1) * (PACKET_SIZE - 1))]

\* write(data): the report handed to the HID handle: the report id 0, then the
\* first PACKET_SIZE bytes of data, zero-padded.
write(data) ==
  LET copied == SubSeq(data, 1, Min(Len(data), PACKET_SIZE))
  IN <<0>> \o copied \o Zeros(PACKET_SIZE - Len(copied))

RECURSIVE Flatten(_)
Flatten(list) == IF list = <<>> THEN <<>> ELSE Head(list) \o Flatten(Tail(list))

\* Buffer.concat(list, totalLength): a buffer of totalLength bytes, the buffers of
\* the list copied into it until it is full, zeros after them.  `bytes` are the
\* copied bytes; the buffer is `bytes` followed by length - Len(bytes) zeros.
BufferConcat(list, totalLength) ==
  LET all == Flatten(list)
  IN [length |-> totalLength, bytes |-> SubSeq(all, 1, Min(Len(all), totalLength))]

\* The buffer that holds exactly these bytes.
BufferOf(bytes) == [length |-> Len(bytes), bytes |-> bytes]

\* The packets of a response as the reassembly reads them: the first one carries
\* the marker at 0, the type at 1, the length at 3 and the payload from 7 on, the
\* others the marker at 0 and the payload from 1 on.
DeviceFrames(messageType, message) ==
  LET first == SubSeq(message, 1, Min(Len(message), PACKET_SIZE - HEADER_SIZE))
      rest == SubSeq(message, Len(first) + 1, Len(message))
      n == (Len(rest) + PACKET_SIZE - 2) \div (PACKET_SIZE - 1)
  IN << Header(messageType, message) \o first
          \o Zeros(PACKET_SIZE - HEADER_SIZE - Len(first)) >>
     \o [k \in 1..n |->
           LET chunk == SubSeq(rest, (k - 1) * (PACKET_SIZE - 1) + 1,
                               Min(k * (PACKET_SIZE - 1), Len(rest)))
           IN <<PROTOCOL_MARKER>> \o chunk \o Zeros(PACKET_SIZE - 1 - Len(chunk))]

\* The payload of length n that is sent: no byte of it is zero.
MessageOf(n) == [i \in 1..n |-> (i % 251) + 1]

\* What the device's side of the HID handle returns, packet by packet: the packets
\* just written ("loopback") or the frames of a response ("device").
FramesOf(feed, messageType, message) ==
  IF feed = "loopback"
    THEN Packets(FullMessage(messageType, message))
    ELSE DeviceFrames(messageType, message)

\* No sendMessage is under way.
NoFraming ==
  [pc |-> "none", messageType |-> 0, message |-> <<>>, feed |-> "none",
   delivered |-> 0, packets |-> <<>>, written |-> <<>>, incoming |-> <<>>,
   responsePackets |-> <<>>, totalLength |-> 0, expectedLength |-> 0,
   responseType |-> 0, shortRead |-> FALSE, status |-> "pending",
   error |-> "none", response |-> BufferOf(<<>>)]

\* sendMessage up to its first read: the header, the packets, and a write for
\* each packet.  write() throws unless the transport is connected and holds a
\* handle.
sendMessageWrite ==
  /\ framing.pc = "start"
  /\ LET packets == Packets(FullMessage(framing.messageType, framing.message))
         frames == FramesOf(framing.feed, framing.messageType, framing.message)
     IN IF ~transport.connected \/ transport.handle = "null"
          THEN framing' = [framing EXCEPT !.pc = "done", !.packets = packets,
                                          !.status = "throw",
                                          !.error = "Device not connected"]
          ELSE framing' = [framing EXCEPT
                             !.pc = "reading",
                             !.packets = packets,
                             !.written = [k \in 1..Len(packets) |-> write(packets[k])],
                             !.incoming = SubSeq(frames, 1, framing.delivered)]
  /\ UNCHANGED <<clientFields, hostVars, daemonVars, transportVars>>

\* One turn of the while (true) loop: a read, the packet pushed, and, at a break,
\* the response concatenated and returned.  read() returns a zero-length packet
\* when the device has nothing more to say.
sendMessageRead ==
  /\ framing.pc = "reading"
  /\ LET packet == IF framing.incoming = <<>> THEN <<>> ELSE Head(framing.incoming)
         first == framing.responsePackets = <<>> /\ packet[1] = PROTOCOL_MARKER
         responseType == IF first THEN readUInt16BE(packet, 1) ELSE framing.responseType
         expectedLength ==
           IF first THEN readUInt32BE(packet, 3) ELSE framing.expectedLength
         pushed == IF first THEN subarray(packet, HEADER_SIZE) ELSE subarray(packet, 1)
         responsePackets == Append(framing.responsePackets, pushed)
         totalLength == framing.totalLength + Len(pushed)
     IN IF Len(packet) = 0
          THEN framing' =
                 [framing EXCEPT
                    !.pc = "done", !.shortRead = TRUE, !.status = "ok",
                    !.response = BufferConcat(framing.responsePackets,
                                              framing.expectedLength)]
          ELSE framing' =
                 [framing EXCEPT
                    !.incoming = Tail(framing.incoming),
                    !.responsePackets = responsePackets,
                    !.totalLength = totalLength,
                    !.expectedLength = expectedLength,
                    !.responseType = responseType,
                    !.pc = IF totalLength >= expectedLength THEN "done" ELSE "reading",
                    !.status = IF totalLength >= expectedLength THEN "ok" ELSE "pending",
                    !.response = IF totalLength >= expectedLength
                                   THEN BufferConcat(responsePackets, expectedLength)
                                   ELSE framing.response]
  /\ UNCHANGED <<clientFields, hostVars, daemonVars, transportVars>>

----------------------------------------------------------------------------
(* The transports: their fields, and what is recorded of their steps *)

SUCCESS == "device:success"

\* The fields of a transport instance.  device is the path of the device held
\* ("null" for none), handle the HID handle of a UsbTransport, listenController
\* the AbortController of a BridgeTransport.
NewTransport(kind) ==
  [kind |-> kind, connected |-> FALSE, device |-> "null",
   deviceSession |-> NullSession, session |-> NullSession,
   handle |-> "null", listenController |-> "null"]

\* A request of the BridgeTransport that awaits its response.
NoRequest == [endpoint |-> "none", session |-> NullSession, aborted |-> FALSE]
Pending(endpoint, session) ==
  [endpoint |-> endpoint, session |-> session, aborted |-> FALSE]

NoneInFlight == [call |-> NoRequest, listen |-> NoRequest]

\* What is recorded of a step of a transport: its argument, whether the transport
\* was connected, what the daemon enumerated, what the medium answered, the outcome.
TDone(op, arg, enumerated, answer, out) ==
  [op |-> op, arg |-> arg, wasConnected |-> transport.connected,
   enumerated |-> enumerated, wasSession |-> transport.session, answer |-> answer,
   status |-> out.status, error |-> out.error, response |-> out.response,
   sent |-> out.sent, emitted |-> out.emitted]

NoStep ==
  [op |-> "new", arg |-> "", wasConnected |-> FALSE, enumerated |-> <<>>,
   wasSession |-> NullSession, answer |-> "none", status |-> "ok", error |-> "none", response |-> NoResponse,
   sent |-> <<>>, emitted |-> <<>>]

\* A handle as connect() returns it.
Handle(path, session) == [path |-> path, session |-> session]

\* The paths a caller passes to connect() ("" for none).
Paths == {"", "/dev/hid0", "/dev/hid1"}

----------------------------------------------------------------------------
(* UsbTransport *)

\* connect(path): enumerate() returns no device, so a path must be given; the
\* open of the HID handle is left out of the source, this.handle stays null.
UsbTransport_connect ==
  /\ transport.kind = "usb"
  /\ \E path \in {"", "/dev/hid0"} :
       IF path = ""
         THEN /\ tlast' = TDone("connect", path, <<>>, "none",
                    Throw("Failed to connect to device: No KeepKey device found",
                          <<>>, <<Event(FAILURE, "No KeepKey device found")>>, <<>>))
              /\ UNCHANGED transport
         ELSE /\ transport' = [transport EXCEPT !.device = path, !.connected = TRUE]
              /\ tlast' = TDone("connect", path, <<>>, "none",
                    Return(Handle(path, NullSession), <<>>,
                           <<Event(CONNECTED, path)>>, <<>>))
  /\ UNCHANGED <<clientFields, hostVars, daemonVars, inflight, granted, framing>>

\* The body of UsbTransport.disconnect() after its guard.
UsbTransport_close ==
  /\ transport' = [transport EXCEPT !.connected = FALSE, !.device = "null",
                                    !.handle = "null"]
  /\ tlast' = TDone("disconnect", "", <<>>, "none",
                    Return(NoResponse, <<>>, <<Event(DISCONNECTED, "undefined")>>, <<>>))

UsbTransport_disconnect ==
  /\ transport.kind = "usb"
  /\ IF ~transport.connected \/ transport.handle = "null"
       THEN /\ tlast' = TDone("disconnect", "", <<>>, "none",
                              Return(NoResponse, <<>>, <<>>, <<>>))
            /\ UNCHANGED transport
       ELSE UsbTransport_close
  /\ UNCHANGED <<clientFields, hostVars, daemonVars, inflight, granted, framing>>

----------------------------------------------------------------------------
(* WebUsbTransport *)

\* What the browser's USB stack does during connect(): there is no navigator.usb;
\* no device is authorized and the user cancels the request; opening or claiming
\* the device fails; the device is opened and claimed.
WebUsbAnswers == {"unsupported", "cancelled", "open-failed", "claimed"}

WebUsbTransport_connect ==
  /\ transport.kind = "webusb"
  /\ \E answer \in WebUsbAnswers :
       CASE answer = "unsupported" ->
              /\ tlast' = TDone("connect", "", <<>>, answer,
                     Throw("WebUSB is not supported in this environment",
                           <<>>, <<>>, <<>>))
              /\ UNCHANGED transport
         [] answer \in {"cancelled", "open-failed"} ->
              /\ tlast' = TDone("connect", "", <<>>, answer,
                     Throw(answer, <<>>, <<Event(FAILURE, answer)>>, <<>>))
              /\ UNCHANGED transport
         [] OTHER ->
              /\ transport' = [transport EXCEPT !.device = "webusb", !.connected = TRUE]
              /\ tlast' = TDone("connect", "", <<>>, answer,
                     Return(Handle("webusb", NullSession), <<>>,
                            <<Event(CONNECTED, "webusb")>>, <<>>))
  /\ UNCHANGED <<clientFields, hostVars, daemonVars, inflight, granted, framing>>

\* disconnect(): releaseInterface() and close() may fail (released is what they
\* do); the error is ignored and the finally block clears the fields.
WebUsbTransport_disconnect ==
  /\ transport.kind = "webusb"
  /\ \E released \in BOOLEAN :
       IF transport.device = "null"
         THEN /\ released
              /\ tlast' = TDone("disconnect", "", <<>>, "none",
                                Return(NoResponse, <<>>, <<>>, <<>>))
              /\ UNCHANGED transport
         ELSE /\ transport' = [transport EXCEPT !.device = "null", !.connected = FALSE]
              /\ tlast' = TDone("disconnect", "", <<>>,
                                IF released THEN "released" ELSE "release-failed",
                                Return(NoResponse, <<>>,
                                       <<Event(DISCONNECTED, "undefined")>>, <<>>))
  /\ UNCHANGED <<clientFields, hostVars, daemonVars, inflight, granted, framing>>

----------------------------------------------------------------------------
(* BridgeTransport *)

\* The index of the first entry of the enumeration with this path (0 if none).
IndexOf(devices, path) ==
  IF \E i \in 1..Len(devices) : devices[i].path = path
    THEN CHOOSE i \in 1..Len(devices) :
           /\ devices[i].path = path
           /\ \A j \in 1..(i - 1) : devices[j].path # path
    ELSE 0

\* connect() that ignores the path it is given.
bridgeSelectFirst(devices, path) == 1

\* path ? devices.find((d) => d.path === path) : devices[0], as the
\* index of the device in a non-empty enumeration (0 for undefined).
bridgeSelect(devices, path) ==
  IF path # "" THEN IndexOf(devices, path) ELSE 1

\* What the daemon, or the network, does with POST /acquire: the fetch is
\* rejected, the daemon answers with an error status, or it issues a session.
AcquireOutcomes == {"netfail", "not-ok", "session"}

BridgeTransport_connect ==
  /\ transport.kind = "bridge"
  /\ \E path \in Paths, fetched \in BOOLEAN, acquired \in AcquireOutcomes :
       LET reqE == Request("GET /enumerate", "", NullSession, "none")
           i == bridgeSelect(daemon, path)
           fail(error, sent, answer) ==
             /\ tlast' = TDone("connect", path, daemon, answer,
                               Throw(error, sent, <<Event(FAILURE, error)>>, <<>>))
             /\ UNCHANGED <<transport, daemon, nextToken, granted>>
       IN IF ~fetched
            THEN fail("enumerate failed", <<reqE>>, "netfail")
          ELSE IF Len(daemon) = 0
            THEN fail("No KeepKey device found via Bridge", <<reqE>>, "none")
          ELSE IF i = 0
            THEN fail("Device not found", <<reqE>>, "none")
          ELSE
            \* acquire(targetDevice.path, targetDevice.session)
            LET targetDevice == daemon[i]
                reqA == Request("POST /acquire", targetDevice.path,
                                targetDevice.session, "none")
            IN IF acquired = "netfail"
                 THEN fail("acquire failed", <<reqE, reqA>>, acquired)
               ELSE IF acquired = "not-ok"
                 THEN fail("Failed to acquire device", <<reqE, reqA>>, acquired)
               ELSE
                 /\ nextToken <= MaxTokens
                 /\ daemon' = [daemon EXCEPT ![i].session = nextToken]
                 /\ nextToken' = nextToken + 1
                 /\ granted' = granted \cup {nextToken}
                 /\ transport' = [transport EXCEPT !.session = nextToken,
                                                   !.device = targetDevice.path,
                                                   !.deviceSession = nextToken,
                                                   !.connected = TRUE]
                 /\ tlast' = TDone("connect", path, daemon, acquired,
                                   Return(Handle(targetDevice.path, nextToken),
                                          <<reqE, reqA>>,
                                          <<Event(CONNECTED, targetDevice.path)>>,
                                          <<>>))
  /\ UNCHANGED <<clientFields, hostVars, inflight, framing>>

\* stopListening(): the controller, if there is one, is aborted and dropped; the
\* /listen request that awaits its response is aborted with it.
stopListeningFields ==
  /\ inflight' =
       IF transport.listenController # "null" /\ inflight.listen # NoRequest
         THEN [inflight EXCEPT !.listen.aborted = TRUE]
         ELSE inflight

BridgeTransport_stopListening ==
  /\ transport.kind = "bridge"
  /\ stopListeningFields
  /\ transport' = [transport EXCEPT !.listenController = "null"]
  /\ tlast' = TDone("stopListening", "", <<>>, "none",
                    Return(NoResponse, <<>>, <<>>, <<>>))
  /\ UNCHANGED <<clientFields, hostVars, daemonVars, granted, framing>>

\* What the daemon, or the network, does with POST /release/{session}.
ReleaseOutcomes(sid) ==
  IF Leased(sid, daemon) THEN {"netfail", "released"} ELSE {"netfail", "not-ok"}

\* The daemon's enumeration once session sid is released.
Released(sid) ==
  [i \in 1..Len(daemon) |->
     IF daemon[i].session = sid
       THEN [daemon[i] EXCEPT !.session = NullSession] ELSE daemon[i]]

BridgeTransport_disconnect ==
  /\ transport.kind = "bridge"
  /\ IF ~transport.connected \/ transport.session = NullSession
       THEN /\ tlast' = TDone("disconnect", "", <<>>, "none",
                              Return(NoResponse, <<>>, <<>>, <<>>))
            /\ UNCHANGED <<transport, inflight, daemon>>
       ELSE \E released \in ReleaseOutcomes(transport.session) :
              LET req == Request("POST /release", "", transport.session, "none") IN
              /\ stopListeningFields
              /\ IF released = "released"
                   THEN /\ transport' = NewTransport("bridge")
                        /\ daemon' = Released(transport.session)
                        /\ tlast' = TDone("disconnect", "", <<>>, released,
                                          Return(NoResponse, <<req>>,
                                                 <<Event(DISCONNECTED, "undefined")>>,
                                                 <<>>))
                   ELSE /\ transport' = [transport EXCEPT !.listenController = "null"]
                        /\ daemon' = daemon
                        /\ tlast' = TDone("disconnect", "", <<>>, released,
                                          Throw("Failed to disconnect", <<req>>,
                                                <<>>, <<>>))
  /\ UNCHANGED <<clientFields, hostVars, nextToken, granted, framing>>

UsbTransport_isConnected == transport.connected
WebUsbTransport_isConnected == transport.connected /\ transport.device # "null"
BridgeTransport_isConnected == transport.connected /\ transport.session # NullSession
BridgeTransport_getDevice == transport.device
BridgeTransport_getSession == transport.session

\* refreshSession() that takes every enumerated session for a changed one.
sessionChangedAlways(current, held) == TRUE

\* currentDevice.session !== this.session
sessionChanged(current, held) == current # held

\* refreshSession(): the held device is looked up in a new enumeration and
\* acquired again when the daemon reports another session for it.
BridgeTransport_refreshSession ==
  /\ transport.kind = "bridge"
  /\ \E fetched \in BOOLEAN, acquired \in AcquireOutcomes :
       LET reqE == Request("GET /enumerate", "", NullSession, "none")
           i == IndexOf(daemon, transport.device)
           fail(error, sent, answer, fields) ==
             /\ tlast' = TDone("refreshSession", transport.device, daemon, answer,
                               Throw(error, sent, <<>>, <<>>))
             /\ transport' = fields
             /\ UNCHANGED <<daemon, nextToken, granted>>
       IN IF transport.device = "null"
            THEN /\ fetched /\ acquired = "session"
                 /\ fail("No device connected", <<>>, "none", transport)
          ELSE IF ~fetched
            THEN /\ acquired = "session"
                 /\ fail("enumerate failed", <<reqE>>, "netfail", transport)
          ELSE IF i = 0
            THEN /\ acquired = "session"
                 /\ fail("Device disconnected", <<reqE>>, "none",
                         [transport EXCEPT !.connected = FALSE])
          ELSE IF sessionChanged(daemon[i].session, transport.session)
            THEN
              LET reqA == Request("POST /acquire", daemon[i].path,
                                  daemon[i].session, "none")
              IN IF acquired = "netfail"
                   THEN fail("acquire failed", <<reqE, reqA>>, acquired, transport)
                 ELSE IF acquired = "not-ok"
                   THEN fail("Failed to acquire device", <<reqE, reqA>>, acquired,
                             transport)
                 ELSE
                   /\ nextToken <= MaxTokens
                   /\ daemon' = [daemon EXCEPT ![i].session = nextToken]
                   /\ nextToken' = nextToken + 1
                   /\ granted' = granted \cup {nextToken}
                   /\ transport' = [transport EXCEPT !.session = nextToken,
                                                     !.deviceSession = nextToken]
                   /\ tlast' = TDone("refreshSession", transport.device, daemon,
                                     acquired,
                                     Return(Handle(transport.device, nextToken),
                                            <<reqE, reqA>>, <<>>, <<>>))
          ELSE
            /\ acquired = "session"
            /\ tlast' = TDone("refreshSession", transport.device, daemon, "none",
                              Return(Handle(transport.device, transport.session),
                                     <<reqE>>, <<>>, <<>>))
            /\ UNCHANGED <<transport, daemon, nextToken, granted>>
  /\ UNCHANGED <<clientFields, hostVars, inflight, framing>>

\* call(), up to its await: the request is put on the medium.
BridgeTransport_call ==
  /\ transport.kind = "bridge"
  /\ inflight.call = NoRequest
  /\ IF transport.session = NullSession
       THEN /\ tlast' = TDone("call", "Ping", <<>>, "none",
                              Throw("No active session", <<>>, <<>>, <<>>))
            /\ UNCHANGED inflight
       ELSE /\ inflight' = [inflight EXCEPT
                              !.call = Pending("POST /call", transport.session)]
            /\ tlast' = TDone("call", "Ping", <<>>, "none",
                              [status |-> "pending", error |-> "none",
                               response |-> NoResponse,
                               sent |-> <<Request("POST /call", "",
                                                  transport.session, "Ping")>>,
                               emitted |-> <<>>, received |-> <<>>])
  /\ UNCHANGED <<clientFields, hostVars, daemonVars, transport, granted, framing>>

\* What the medium answers on a session: a body only on a session the daemon holds.
BridgeAnswers(sid, bodies) ==
  {"netfail", "not-ok"} \cup (IF Leased(sid, daemon) THEN bodies ELSE {})

\* call(), from its await on: the answer to the request.
BridgeTransport_callResponse ==
  /\ transport.kind = "bridge"
  /\ inflight.call # NoRequest
  /\ \E answer \in BridgeAnswers(inflight.call.session, {"Success", "Failure"}) :
       tlast' = TDone("callResponse", "Ping", <<>>,
                      IF answer \in {"netfail", "not-ok"} THEN answer ELSE "body",
                      CASE answer = "netfail" -> Throw("fetch failed", <<>>, <<>>, <<>>)
                        [] answer = "not-ok" ->
                             Throw("Bridge call failed", <<>>, <<>>, <<>>)
                        [] OTHER ->
                             Return([type |-> MESSAGE_TYPES[answer],
                                     message |-> Payload(answer)], <<>>, <<>>, <<>>))
  /\ inflight' = [inflight EXCEPT !.call = NoRequest]
  /\ UNCHANGED <<clientFields, hostVars, daemonVars, transport, granted, framing>>

\* listen(), up to its await: a new controller, and the request on the medium.
\* (The caller starts one loop at a time.)
BridgeTransport_listen ==
  /\ transport.kind = "bridge"
  /\ inflight.listen = NoRequest
  /\ IF transport.session = NullSession
       THEN /\ tlast' = TDone("listen", "", <<>>, "none",
                              Throw("No active session", <<>>, <<>>, <<>>))
            /\ UNCHANGED <<inflight, transport>>
       ELSE /\ transport' = [transport EXCEPT !.listenController = "controller"]
            /\ inflight' = [inflight EXCEPT
                              !.listen = Pending("POST /listen", transport.session)]
            /\ tlast' = TDone("listen", "", <<>>, "none",
                              [status |-> "pending", error |-> "none",
                               response |-> NoResponse,
                               sent |-> <<Request("POST /listen", "",
                                                  transport.session, "none")>>,
                               emitted |-> <<>>, received |-> <<>>])
  /\ UNCHANGED <<clientFields, hostVars, daemonVars, granted, framing>>

\* handleListenResponse with the case of Success left out.
handleListenResponseWithoutSuccess(response) ==
  CASE response.type = 26 -> <<Event(BUTTON_REQUEST, response.message)>>
    [] response.type = 18 -> <<Event(PIN_REQUEST, response.message)>>
    [] response.type = 41 -> <<Event(PASSPHRASE_REQUEST, response.message)>>
    [] response.type = 46 -> <<Event(WORD_REQUEST, response.message)>>
    [] response.type = 3 -> <<Event(FAILURE, response.message)>>
    [] OTHER -> <<>>

\* handleListenResponse(response): the events it emits.
handleListenResponse(response) ==
  CASE response.type = 26 -> <<Event(BUTTON_REQUEST, response.message)>>
    [] response.type = 18 -> <<Event(PIN_REQUEST, response.message)>>
    [] response.type = 41 -> <<Event(PASSPHRASE_REQUEST, response.message)>>
    [] response.type = 46 -> <<Event(WORD_REQUEST, response.message)>>
    [] response.type = 3 -> <<Event(FAILURE, response.message)>>
    [] response.type = 2 -> <<Event(SUCCESS, response.message)>>
    [] OTHER -> <<>>

\* The messages the daemon passes on to a listener, by name.
ListenNames == ResponseTypes

\* listen() when a handler of the event of the response calls stopListening():
\* the controller is aborted and set to null, and reading
\* this.listenController.signal after handleListenResponse() throws a TypeError,
\* which the catch of listen() emits as a failure; no request follows.
listenStoppedByHandler(data) ==
  /\ handleListenResponse(data) # <<>>
  /\ transport' = [transport EXCEPT !.listenController = "null"]
  /\ inflight' = [inflight EXCEPT !.listen = NoRequest]
  /\ tlast' = TDone("listenResponse", "stopListening", <<>>, "stopped",
                    Return(data, <<>>,
                           handleListenResponse(data) \o <<Event(FAILURE, "TypeError")>>,
                           <<>>))

\* listen(), from its await on: the answer to the /listen request.  An aborted
\* request ends the loop silently; a rejected fetch or an error status is emitted
\* as a failure and ends the loop; a body is handled and, the controller not being
\* aborted, listen() is called again and puts the next request on the medium.
BridgeTransport_listenResponse ==
  /\ transport.kind = "bridge"
  /\ inflight.listen # NoRequest
  /\ IF inflight.listen.aborted
       THEN /\ inflight' = [inflight EXCEPT !.listen = NoRequest]
            /\ tlast' = TDone("listenResponse", "", <<>>, "aborted",
                              Return(NoResponse, <<>>, <<>>, <<>>))
            /\ UNCHANGED transport
       ELSE \E answer \in BridgeAnswers(inflight.listen.session, ListenNames) :
              IF answer = "netfail"
                THEN /\ inflight' = [inflight EXCEPT !.listen = NoRequest]
                     /\ tlast' = TDone("listenResponse", "", <<>>, answer,
                                       Return(NoResponse, <<>>,
                                              <<Event(FAILURE, "fetch failed")>>, <<>>))
                     /\ UNCHANGED transport
              ELSE IF answer = "not-ok"
                THEN /\ inflight' = [inflight EXCEPT !.listen = NoRequest]
                     /\ tlast' = TDone("listenResponse", "", <<>>, answer,
                                       Return(NoResponse, <<>>,
                                              <<Event(FAILURE, "Listen request failed")>>,
                                              <<>>))
                     /\ UNCHANGED transport
              ELSE
                LET data == [type |-> MESSAGE_TYPES[answer], message |-> Payload(answer)]
                    next == Request("POST /listen", "", transport.session, "none")
                IN \/ /\ inflight' = [inflight EXCEPT
                                        !.listen = Pending("POST /listen", transport.session)]
                      /\ tlast' = TDone("listenResponse", "", <<>>, "body",
                                        Return(data, <<next>>,
                                               handleListenResponse(data), <<>>))
                      /\ UNCHANGED transport
                   \/ listenStoppedByHandler(data)
  /\ UNCHANGED <<clientFields, hostVars, daemonVars, granted, framing>>

----------------------------------------------------------------------------
(* The specifications of the transports and of the framing *)

\* No KeepKeyClient is at work.
ClientAbsent ==
  /\ connectionType = KEEPKEY_BRIDGE
  /\ devicePath = ""
  /\ connected = FALSE
  /\ device = NullDevice
  /\ sessionId = NullSession
  /\ awaiting = "none"
  /\ pinFlow = "none"
  /\ last = NoOperation
  /\ listeners = NoListeners
  /\ pending = NoPending
  /\ trigger = NoTrigger
  /\ execution = NoExecution
  /\ util = NoUtil

TransportKinds == {"usb", "webusb", "bridge"}

\* new UsbTransport(), new WebUsbTransport() or new BridgeTransport()
TransportInit ==
  /\ ClientAbsent
  /\ transport \in {NewTransport(kind) : kind \in TransportKinds}
  /\ daemon \in IF transport.kind = "bridge" THEN Enumerations ELSE {<<>>}
  /\ nextToken = 1
  /\ inflight = NoneInFlight
  /\ granted = {}
  /\ tlast = NoStep
  /\ framing = NoFraming

TransportNext ==
  \/ UsbTransport_connect
  \/ UsbTransport_disconnect
  \/ WebUsbTransport_connect
  \/ WebUsbTransport_disconnect
  \/ BridgeTransport_connect
  \/ BridgeTransport_disconnect
  \/ BridgeTransport_call
  \/ BridgeTransport_callResponse
  \/ BridgeTransport_listen
  \/ BridgeTransport_listenResponse
  \/ BridgeTransport_stopListening
  \/ BridgeTransport_refreshSession
  \/ DaemonRotate
  \/ DeviceUnplug

TransportSpec == TransportInit /\ [][TransportNext]_vars

\* The message types sent through sendMessage in the model.
FramedTypes == {MESSAGE_TYPES["Initialize"], MESSAGE_TYPES["Features"]}

\* A connected UsbTransport is asked to send a message.  handle is the HID handle
\* the native module opens (connect() leaves it null); the device's side returns
\* the first `delivered` packets of its frames and then nothing.
FramingInit ==
  /\ ClientAbsent
  /\ daemon = <<>>
  /\ nextToken = 1
  /\ inflight = NoneInFlight
  /\ granted = {}
  /\ tlast = NoStep
  /\ \E handle \in {"null", "hid"} :
       transport = [NewTransport("usb") EXCEPT !.connected = TRUE,
                                               !.device = "/dev/hid0",
                                               !.handle = handle]
  /\ \E messageType \in FramedTypes, n \in 0..MaxPayload, feed \in {"loopback", "device"} :
       \E delivered \in 0..Len(FramesOf(feed, messageType, MessageOf(n))) :
         framing = [NoFraming EXCEPT !.pc = "start",
                                     !.messageType = messageType,
                                     !.message = MessageOf(n),
                                     !.feed = feed,
                                     !.delivered = delivered]

FramingNext == sendMessageWrite \/ sendMessageRead

FramingSpec == FramingInit /\ [][FramingNext]_vars

----------------------------------------------------------------------------
(* The claims *)

\* The operations that are call() or wrap it.
CallOps ==
  {"getFeatures", "ping", "getEntropy", "cancel", "clearSession", "sendPin",
   "sendPassphrase", "sendWord", "sendButtonAck", "applySettings", "wipeDevice",
   "resetDevice", "recoverDevice", "changePin"}

InteractiveOps ==
  {"applySettings", "wipeDevice", "resetDevice", "recoverDevice", "changePin"}

\* The event that announces a confirmation request of this type.
EventOf(type) ==
  CASE type = "ButtonRequest" -> BUTTON_REQUEST
    [] type = "PinMatrixRequest" -> PIN_REQUEST
    [] type = "PassphraseRequest" -> PASSPHRASE_REQUEST
    [] type = "WordRequest" -> WORD_REQUEST
    [] OTHER -> "none"

\* The requests among sent that carry a message of one of these types.
SentOf(sent, types) == {i \in 1..Len(sent) : sent[i].type \in types}

\* C1: an operation that is call() or wraps it, issued on a client that is not
\* connected, throws "Device not connected" and puts nothing on the medium,
\* whatever the connection type.
C1_NotConnectedFailsWithoutTransport ==
  (last.op \in CallOps /\ ~last.wasConnected)
    => /\ last.status = "throw"
       /\ last.error = "Device not connected"
       /\ last.sent = <<>>

\* C1's case: a bridge client that was connected and is disconnected again is
\* asked to send a PIN.
C1_Witness ==
  /\ connectionType = KEEPKEY_BRIDGE
  /\ nextToken > 1
  /\ last.op = "sendPin"
  /\ ~last.wasConnected
  /\ last.error = "Device not connected"

\* C2: once changePin() has returned a PinMatrixRequest, the first sendPin() sends
\* one PinMatrixAck and returns what the medium answers; once that has answered the
\* request, a further sendPin() with no other operation in between throws and
\* sends nothing.
C2_SendPinSucceedsExactlyOnce ==
  [][/\ (pinFlow = "requested" /\ sendPin)
          => /\ Len(last'.sent) = 1
             /\ last'.sent[1].type = "PinMatrixAck"
             /\ last'.status = "ok" => last'.response = last'.received[1]
     /\ (pinFlow = "acked" /\ sendPin)
          => /\ last'.status = "throw"
             /\ last'.sent = <<>>]_vars

\* C3: an interactive operation whose request is answered by a ButtonRequest emits
\* one device:buttonRequest with that response's payload, sends one ButtonAck after
\* the request, and returns the answer to the ButtonAck.
C3_ButtonRequestIsAcknowledged ==
  (/\ last.op \in InteractiveOps
   /\ last.received # <<>>
   /\ last.received[1].type = "ButtonRequest")
    => /\ last.emitted = <<Event(BUTTON_REQUEST, last.received[1].message)>>
       /\ Len(last.sent) = 2
       /\ last.sent[2].type = "ButtonAck"
       /\ last.status = "ok" => (Len(last.received) = 2
                                 /\ last.response = last.received[2])

\* C4: an interactive operation that returns a PinMatrixRequest, PassphraseRequest
\* or WordRequest has emitted the event of that request once, with its payload, has
\* sent no PinMatrixAck, PassphraseAck or WordAck, and returns the response as it
\* was received.
C4_DataRequestsAreAnnouncedNotAcknowledged ==
  (/\ last.op \in InteractiveOps
   /\ last.status = "ok"
   /\ last.response.type \in {"PinMatrixRequest", "PassphraseRequest", "WordRequest"})
    => /\ Cardinality({i \in 1..Len(last.emitted) :
                         last.emitted[i] = Event(EventOf(last.response.type),
                                                 last.response.message)}) = 1
       /\ Cardinality({i \in 1..Len(last.emitted) :
                         last.emitted[i].event = EventOf(last.response.type)}) = 1
       /\ SentOf(last.sent, {"PinMatrixAck", "PassphraseAck", "WordAck"}) = {}
       /\ last.response = last.received[Len(last.received)]

\* C5: sendPin(), sendPassphrase() or sendWord() on a connected client whose device
\* has no request of that kind outstanding throws and sends nothing.
C5_OutOfSequenceAckFailsFast ==
  [][(\/ (connected /\ awaiting # "pin" /\ sendPin)
      \/ (connected /\ awaiting # "passphrase" /\ sendPassphrase)
      \/ (connected /\ awaiting # "word" /\ sendWord))
       => /\ last'.status = "throw"
          /\ last'.sent = <<>>]_vars

\* C6: bridge: a call made while the daemon reports, for the held path, another
\* session than the held one first posts /acquire and then posts the message on
\* the session the daemon then reports; nothing is posted on another session, and
\* the call returns.
C6_StaleSessionIsReacquiredBeforeCall ==
  (last.op \in CallOps /\ last.wasStale)
    => /\ last.sent # <<>>
       /\ last.sent[1].endpoint = "POST /acquire"
       /\ \A i \in 1..Len(last.sent) :
            last.sent[i].endpoint = "POST /call/{session}"
              => last.sent[i].session = DaemonSession(device.path)
       /\ \E i \in 1..Len(last.sent) : last.sent[i].endpoint = "POST /call/{session}"

\* C7: a connected client holds the identifier of its transport kind: a session
\* token under the bridge, a non-empty device path otherwise.
C7_ConnectedHandleHasIdentifier ==
  connected
    => IF connectionType = KEEPKEY_BRIDGE
         THEN sessionId \in Tokens
         ELSE ~device.null /\ device.path # ""

\* C8: when connect() returns, an Initialize message was sent during it, after the
\* channel was set up, and the device's features are that message's answer.
C8_ConnectInitializesFeatures ==
  (last.op = "connect" /\ last.status = "ok")
    => /\ SentOf(last.sent, {"Initialize"}) # {}
       /\ getDevice.features # "undefined"
       /\ getDevice.features = last.response.message

\* C9: disconnect() on a client that is not connected returns without throwing,
\* sends nothing, emits nothing, and the client is still disconnected.
C9_DisconnectWhenDisconnectedIsNoOp ==
  (last.op = "disconnect" /\ ~last.wasConnected)
    => /\ last.status = "ok"
       /\ last.sent = <<>>
       /\ last.emitted = <<>>
       /\ ~connected
       /\ ~isConnected
       /\ getDevice = NullDevice
       /\ sessionId = NullSession

\* C9's case: disconnect() is called on a bridge client that is not connected,
\* after a session had been handed out.
C9_Witness ==
  /\ connectionType = KEEPKEY_BRIDGE
  /\ nextToken > 1
  /\ last.op = "disconnect"
  /\ ~last.wasConnected
  /\ last.status = "ok"

\* C10: disconnect() never throws, and after it the client is disconnected: no
\* device, no session.
C10_DisconnectNeverThrows ==
  last.op = "disconnect"
    => /\ last.status = "ok"
       /\ ~isConnected
       /\ getDevice = NullDevice
       /\ sessionId = NullSession

----------------------------------------------------------------------------
(* The claims on the transports *)

\* isConnected() of the transport at work.
TransportIsConnected ==
  CASE transport.kind = "usb" -> UsbTransport_isConnected
    [] transport.kind = "webusb" -> WebUsbTransport_isConnected
    [] OTHER -> BridgeTransport_isConnected

\* C11: disconnect() of a transport that a connect() had connected returns without
\* throwing, whatever the medium does with the teardown, and leaves the transport
\* disconnected: isConnected() is false, no device, no session.
C11_TransportDisconnectAlwaysDisconnects ==
  (tlast.op = "disconnect" /\ tlast.wasConnected)
    => /\ tlast.status = "ok"
       /\ ~TransportIsConnected
       /\ transport.device = "null"
       /\ transport.session = NullSession

\* C12: a disconnect() of a bridge-connected client that held session S and
\* returned has posted /release/S, and the daemon no longer holds S.
C12_BridgeDisconnectReleasesLease ==
  (/\ connectionType = KEEPKEY_BRIDGE
   /\ last.op = "disconnect"
   /\ last.wasConnected
   /\ last.status = "ok"
   /\ last.sent # <<>>
   /\ last.sent[1].session \in Tokens)
    => /\ \E i \in 1..Len(last.sent) :
            /\ last.sent[i].endpoint = "POST /release"
            /\ last.sent[i].session = last.sent[1].session
       /\ ~Leased(last.sent[1].session, daemon)

\* The device a bridge connect() is to select from what the daemon enumerated: the
\* one whose path was asked for, or the first one.
C13_Selected ==
  IF tlast.arg = ""
    THEN tlast.enumerated[1]
    ELSE tlast.enumerated[CHOOSE i \in 1..Len(tlast.enumerated) :
                            tlast.enumerated[i].path = tlast.arg]

\* C13: a bridge connect() that got the daemon's enumeration, in which the device
\* to select has no session, posts /acquire/{path}/null for that device; it returns
\* once the daemon issues a session, and the handle it returns carries that
\* device's path and the session the daemon issued.
C13_BridgeConnectAcquiresSelectedDevice ==
  (/\ transport.kind = "bridge"
   /\ tlast.op = "connect"
   /\ tlast.error # "enumerate failed"
   /\ tlast.enumerated # <<>>
   /\ (tlast.arg # "" =>
         \E i \in 1..Len(tlast.enumerated) : tlast.enumerated[i].path = tlast.arg)
   /\ C13_Selected.session = NullSession)
    => /\ Len(tlast.sent) = 2
       /\ tlast.sent[2] = Request("POST /acquire", C13_Selected.path, NullSession, "none")
       /\ (tlast.answer = "session") = (tlast.status = "ok")
       /\ tlast.status = "ok"
            => /\ tlast.response.path = C13_Selected.path
               /\ tlast.response.session \in Tokens
               /\ tlast.response.session \in granted
               /\ BridgeTransport_getSession = tlast.response.session
               /\ BridgeTransport_getDevice = C13_Selected.path

\* C13's case: the daemon enumerates two devices without a session, and connect()
\* was asked for the second one and returned.
C13_Witness ==
  /\ transport.kind = "bridge"
  /\ tlast.op = "connect"
  /\ tlast.status = "ok"
  /\ Len(tlast.enumerated) = 2
  /\ tlast.arg = tlast.enumerated[2].path
  /\ tlast.enumerated[2].session = NullSession
  /\ tlast.response.path = tlast.arg

\* The sessions the daemon issued to the BridgeTransport and still holds.
HeldAtDaemon == {t \in granted : Leased(t, daemon)}

\* C14: whatever connect() calls were made, the daemon holds no session of the
\* BridgeTransport beside the one the transport holds, and none at all once a
\* disconnect() has returned.
C14_ConnectLeaksNoSession ==
  transport.kind = "bridge"
    => /\ HeldAtDaemon \subseteq
            (IF transport.connected THEN {transport.session} ELSE {})
       /\ (tlast.op = "disconnect" /\ tlast.status = "ok") => HeldAtDaemon = {}

C16_WireLayoutIsBitExact ==
  framing.pc \in {"reading", "done"}
    => LET L == Len(framing.message)
           over == IF L > 57 THEN L - 57 ELSE 0
           packets == framing.packets
       IN /\ \A k \in 1..Len(packets) : Len(packets[k]) = 64
          /\ Len(packets) = 1 + (over + 62) \div 63
          /\ SubSeq(packets[1], 1, 7)
               = <<63>> \o UInt16BE(framing.messageType) \o UInt32BE(L)
          /\ SubSeq(packets[1], 8, 7 + Min(L, 57)) = SubSeq(framing.message, 1, Min(L, 57))
          /\ \A k \in 2..Len(packets) :
               /\ packets[k][1] = 63
               /\ LET from == 57 + 63 * (k - 2)
                      upto == Min(from + 63, L)
                  IN SubSeq(packets[k], 2, 1 + upto - from)
                       = SubSeq(framing.message, from + 1, upto)

C18_ListenLoopRunsUntilStopped ==
  (/\ tlast.op = "listenResponse"
   /\ tlast.answer \in {"body", "not-ok"})
    => /\ inflight.listen # NoRequest
       /\ ~inflight.listen.aborted

\* The event of each message the listener announces.
C19_Events ==
  [ButtonRequest |-> "device:buttonRequest", PinMatrixRequest |-> "device:pinRequest",
   PassphraseRequest |-> "device:passphraseRequest", WordRequest |-> "device:wordRequest",
   Failure |-> "device:failure", Success |-> "device:success"]

C20_OneRequestPerSession ==
  ~(/\ inflight.call # NoRequest
    /\ inflight.listen # NoRequest
    /\ ~inflight.listen.aborted
    /\ inflight.call.session = inflight.listen.session)

----------------------------------------------------------------------------
(* KeepKeyClient.call over HTTP, step by step *)

\* The messages a caller sends through call() in CallSpec.
CallTypes == {"Ping", "Cancel"}

\* call(type, params), up to its await.  On the desktop app and on the bridge
\* fetch() is called with a method, headers and a body and no signal: the call
\* then awaits what the medium does.  It throws at once otherwise.
KeepKeyClient_call ==
  /\ pending = NoPending
  /\ \E type \in CallTypes :
       IF connected /\ connectionType \in {KEEPKEY_DESKTOP, KEEPKEY_BRIDGE}
         THEN /\ pending' = [type |-> type, session |-> sessionId,
                             settled |-> FALSE, reply |-> NoResponse]
              /\ UNCHANGED <<last, awaiting, pinFlow>>
         ELSE LET out == call(connected, sessionId, type, NetFail) IN
              /\ last' = Done("call", out)
              /\ awaiting' = AwaitingAfter(out.received)
              /\ pinFlow' = PinFlowAfter("call", out)
              /\ UNCHANGED pending
  /\ UNCHANGED <<connectionType, devicePath, connected, device, sessionId,
                 daemonVars, listeners, trigger, transportVars, framing, execution,
                 util>>

\* The medium answers the request, or the connection fails: fetch() settles.
MediumAnswers ==
  /\ pending # NoPending
  /\ ~pending.settled
  /\ \E reply \in AnswersOn(pending.type, pending.session, daemon) :
       pending' = [pending EXCEPT !.settled = TRUE, !.reply = reply]
  /\ UNCHANGED <<clientFields, daemonVars, listeners, trigger, transportVars, framing, execution,
                 util>>

\* call(), from its await on: response.json() is returned, or the rejection of
\* fetch() is thrown.
KeepKeyClient_callSettled ==
  /\ pending.settled
  /\ LET out == callUnguarded(TRUE, pending.session, pending.type, pending.reply) IN
       /\ last' = Done("call", out)
       /\ awaiting' = AwaitingAfter(out.received)
       /\ pinFlow' = PinFlowAfter("call", out)
  /\ pending' = NoPending
  /\ UNCHANGED <<connectionType, devicePath, connected, device, sessionId,
                 daemonVars, listeners, trigger, transportVars, framing, execution,
                 util>>

CallNext ==
  \/ connect
  \/ disconnect
  \/ KeepKeyClient_call
  \/ MediumAnswers
  \/ KeepKeyClient_callSettled

\* The event loop runs the continuation of a call once its fetch() has settled;
\* nothing makes the medium answer.
CallSpec == Init /\ [][CallNext]_vars /\ WF_vars(KeepKeyClient_callSettled)

----------------------------------------------------------------------------
(* KeepKeyClient.onEvent and offEvent *)

\* The callbacks a caller subscribes with, and the events it subscribes to: those
\* that connect(), disconnect() and changePin() emit.
Callbacks == {"cb1", "cb2"}
SubscribedEvents == {CONNECTED, DISCONNECTED, PIN_REQUEST, FAILURE}

\* Registrations the client holds at a time, over all events, in EventSpec.
MaxListeners == 2

Registrations(ls) ==
  Cardinality({p \in KeepKeyEvents \X (1..(MaxListeners + 1)) : p[2] <= Len(ls[p[1]])})

\* The registrations of a callback for an event, as indices of the listener list.
RegistrationsOf(ls, event, callback) ==
  {i \in 1..Len(ls[event]) : ls[event][i] = callback}

\* this.on(event, callback): the callback is added at the end of the listeners
\* of the event, whether it is registered already or not.
on(ls, event, callback) == [ls EXCEPT ![event] = Append(@, callback)]

\* off() that removes nothing.
offKeeps(ls, event, callback) == ls

\* this.off(event, callback): the registration of the callback added last is
\* removed from the listeners of the event; none is removed if there is none.
off(ls, event, callback) ==
  LET held == RegistrationsOf(ls, event, callback) IN
  IF held = {} THEN ls
  ELSE LET k == CHOOSE i \in held : \A j \in held : j <= i
       IN [ls EXCEPT ![event] = SubSeq(@, 1, k - 1) \o SubSeq(@, k + 1, Len(@))]

\* What is recorded of onEvent and offEvent: the event, the callback and how
\* often the callback was registered for the event before.
Subscription(op, event, callback) ==
  [event |-> event, callback |-> callback,
   registered |-> Cardinality(RegistrationsOf(listeners, event, callback))]
    @@ Done(op, Return(NoResponse, <<>>, <<>>, <<>>))

onEvent ==
  /\ Registrations(listeners) < MaxListeners
  /\ \E event \in SubscribedEvents, callback \in Callbacks :
       /\ listeners' = on(listeners, event, callback)
       /\ last' = Subscription("onEvent", event, callback)
  /\ UNCHANGED <<connectionType, devicePath, connected, device, sessionId, awaiting,
                 pinFlow, daemonVars, pending, trigger, transportVars, framing, execution,
                 util>>

offEvent ==
  /\ \E event \in SubscribedEvents, callback \in Callbacks :
       /\ listeners' = off(listeners, event, callback)
       /\ last' = Subscription("offEvent", event, callback)
  /\ UNCHANGED <<connectionType, devicePath, connected, device, sessionId, awaiting,
                 pinFlow, daemonVars, pending, trigger, transportVars, framing, execution,
                 util>>

\* new KeepKeyClient({connectionType: 'keepkeyDesktop'})
EventInit == Init /\ connectionType = KEEPKEY_DESKTOP

\* Subscribing and unsubscribing, and the operations that emit.
EventNext ==
  \/ onEvent
  \/ offEvent
  \/ connectDesktop
  \/ disconnect
  \/ changePin

EventSpec == EventInit /\ [][EventNext]_vars

----------------------------------------------------------------------------
(* KeepKeyTrigger.trigger: the polling loop *)

\* The values of the `event` parameter in TriggerSpec.
TriggerEvents == {"deviceConnected", "deviceDisconnected", "all"}

\* eventMapping[event]: the events to listen to, among those the client emits.
eventMapping(event) ==
  CASE event = "deviceConnected" -> {CONNECTED}
    [] event = "deviceDisconnected" -> {DISCONNECTED}
    [] event = "all" -> {CONNECTED, DISCONNECTED, BUTTON_REQUEST, PIN_REQUEST,
                         PASSPHRASE_REQUEST, FAILURE, SUCCESS}
    [] OTHER -> {event}

eventsToListen == eventMapping(trigger.event)

\* features?.device_id || 'unknown'
DeviceId(features) == IF features = "features" THEN "device-id" ELSE "unknown"

\* The item handleEvent(eventName, data) emits to the workflow.
Item(eventName, data) == [event |-> eventName, data |-> data]

\* handleEvent(eventName, data) if the event is listened to.
handleIfListened(eventName, data) ==
  IF eventName \in eventsToListen THEN <<Item(eventName, data)>> ELSE <<>>

\* The items the listeners registered by the trigger emit when the last
\* operation of the client emits its events: (data) => handleEvent(eventName, data).
RECURSIVE heard(_)
heard(invoked) ==
  IF invoked = <<>> THEN <<>>
  ELSE (IF Head(invoked).callback = "handleEvent"
        THEN <<Item(Head(invoked).event, [emitted |-> Head(invoked).payload])>>
        ELSE <<>>) \o heard(Tail(invoked))

\* What the fields of the closure become at the end of a poll.  caught: the
\* inner catch was entered; currentState: the device id of the features.
pollOutcome(fields, caught, currentState) ==
  IF caught
    THEN IF fields.lastDeviceState # "null"
           THEN [fields EXCEPT
                   !.items = @ \o handleIfListened(
                                    DISCONNECTED,
                                    [previousDeviceId |-> fields.lastDeviceState]),
                   !.lastDeviceState = "null"]
           ELSE fields
  ELSE IF fields.lastDeviceState = "null" \/ fields.lastDeviceState # currentState
    THEN [fields EXCEPT
            !.items = @ \o handleIfListened(CONNECTED, [deviceId |-> currentState]),
            !.lastDeviceState = currentState]
  ELSE fields

\* if (isRunning) pollTimeout = setTimeout(pollDeviceState, ...)
scheduled(fields) ==
  [fields EXCEPT !.pc = IF fields.isRunning THEN "poll" ELSE "stopped"]

triggerFrame ==
  UNCHANGED <<connectionType, devicePath, connected, device, sessionId, awaiting,
              pinFlow, daemonVars, listeners, pending, transportVars, framing, execution,
                 util>>

\* pollDeviceState(), up to `await client.connect()`.  polls counts the polls
\* of the timer, modulo 2.
pollDeviceState ==
  /\ trigger.pc = "poll"
  /\ IF ~trigger.isRunning
       THEN /\ trigger' = [trigger EXCEPT !.pc = "stopped", !.items = <<>>]
            /\ UNCHANGED last
     ELSE IF isConnected
       THEN /\ trigger' = scheduled([trigger EXCEPT !.items = <<>>,
                                                    !.polls = (@ + 1) % 2])
            /\ UNCHANGED last
     ELSE /\ trigger' = [trigger EXCEPT !.pc = "connect", !.items = <<>>,
                                        !.polls = (@ + 1) % 2]
          /\ last' = Done("pollDeviceState", Return(NoResponse, <<>>, <<>>, <<>>))
  /\ triggerFrame

\* await client.connect()
pollConnect ==
  /\ trigger.pc = "connect"
  /\ last.op = "pollDeviceState"
  /\ (connectDesktop \/ connectBridge)

\* pollDeviceState() once connect() has settled.
pollConnected ==
  /\ trigger.pc = "connect"
  /\ last.op = "connect"
  /\ LET fields == [trigger EXCEPT !.items = @ \o heard(last.invoked)] IN
     trigger' = IF last.status = "throw"
                  THEN scheduled(pollOutcome(fields, TRUE, "unknown"))
                  ELSE [fields EXCEPT !.pc = "features"]
  /\ UNCHANGED last
  /\ triggerFrame

\* await client.getFeatures()
pollGetFeatures ==
  /\ trigger.pc = "features"
  /\ last.op = "connect"
  /\ getFeatures

\* pollDeviceState() once getFeatures() has settled, to its end.
pollFeatures ==
  /\ trigger.pc = "features"
  /\ last.op = "getFeatures"
  /\ trigger' = scheduled(pollOutcome(
                            [trigger EXCEPT !.items = @ \o heard(last.invoked)],
                            last.status = "throw",
                            DeviceId(last.response.message)))
  /\ UNCHANGED last
  /\ triggerFrame

\* closeFunction(), up to `await client.disconnect()`: n8n closes the trigger
\* between two polls, and the timer is cleared.
closeFunction ==
  /\ trigger.pc = "poll"
  /\ trigger.isRunning
  /\ trigger' = [trigger EXCEPT !.isRunning = FALSE, !.pc = "closing", !.items = <<>>]
  /\ last' = Done("closeFunction", Return(NoResponse, <<>>, <<>>, <<>>))
  /\ triggerFrame

\* await client.disconnect(), its error ignored
closeDisconnect ==
  /\ trigger.pc = "closing"
  /\ last.op = "closeFunction"
  /\ disconnect

\* closeFunction() once disconnect() has settled, its error ignored: the
\* listeners have emitted the items of the events of the disconnect.
closeFinished ==
  /\ trigger.pc = "closing"
  /\ last.op = "disconnect"
  /\ trigger' = [trigger EXCEPT !.pc = "closed", !.closed = TRUE,
                                !.items = @ \o heard(last.invoked)]
  /\ UNCHANGED last
  /\ triggerFrame

\* closeFunction() while the connect() of a poll is in flight: the client is
\* not marked connected, so disconnect() returns at once and closeFunction()
\* completes before connect() settles.
closeDuringConnect ==
  /\ trigger.pc = "connect"
  /\ last.op = "pollDeviceState"
  /\ trigger.isRunning
  /\ ~connected
  /\ trigger' = [trigger EXCEPT !.isRunning = FALSE, !.closed = TRUE]
  /\ UNCHANGED last
  /\ triggerFrame

\* trigger(): the client is constructed for the bridge or the desktop app, a
\* handler is subscribed for each event to listen to, and the first poll is due.
TriggerInit ==
  /\ connectionType \in {KEEPKEY_BRIDGE, KEEPKEY_DESKTOP}
  /\ devicePath = ""
  /\ connected = FALSE
  /\ device = NullDevice
  /\ sessionId = NullSession
  /\ awaiting = "none"
  /\ pinFlow = "none"
  /\ last = NoOperation
  /\ daemon \in IF connectionType = KEEPKEY_BRIDGE THEN Enumerations ELSE {<<>>}
  /\ nextToken = 1
  /\ pending = NoPending
  /\ \E event \in TriggerEvents :
       /\ trigger = [pc |-> "poll", event |-> event, isRunning |-> TRUE,
                     lastDeviceState |-> "null", items |-> <<>>, polls |-> 0,
                     closed |-> FALSE]
       /\ listeners = [e \in KeepKeyEvents |->
                         IF e \in eventMapping(event) THEN <<"handleEvent">> ELSE <<>>]
  /\ execution = NoExecution
  /\ util = NoUtil
  /\ transport = NewTransport("none")
  /\ inflight = NoneInFlight
  /\ granted = {}
  /\ tlast = NoStep
  /\ framing = NoFraming

Poll ==
  \/ pollDeviceState
  \/ pollConnect
  \/ pollConnected
  \/ pollGetFeatures
  \/ pollFeatures

TriggerNext ==
  \/ Poll
  \/ closeFunction
  \/ closeDisconnect
  \/ closeFinished
  \/ closeDuringConnect
  \/ DeviceUnplug

\* The timer of the poll fires and the continuations of its awaits run; the
\* medium is taken to answer every request of the poll.
TriggerSpec == TriggerInit /\ [][TriggerNext]_vars /\ WF_vars(Poll)

----------------------------------------------------------------------------
(* The claims on sessions, failures and time *)

\* The requests to /acquire among those a step of the transport sent.
AcquiresOf(sent) == {k \in 1..Len(sent) : sent[k].endpoint = "POST /acquire"}

\* C21: refreshSession() on a held device whose enumeration was obtained: if the
\* held path is enumerated with the held session, no acquire is issued and the
\* session is unchanged; if it is enumerated with another session, exactly one
\* acquire is issued and, when it succeeds, the held session and device.session
\* both become the returned token; it fails with 'Device disconnected' only when
\* the path is not enumerated, and the transport is then marked not connected.
C21_RefreshSessionReacquiresOnlyWhenStale ==
  (tlast.op = "refreshSession" /\ tlast.arg # "null"
     /\ tlast.error # "enumerate failed") =>
    LET i == IndexOf(tlast.enumerated, tlast.arg) IN
    /\ (i # 0 /\ tlast.enumerated[i].session = tlast.wasSession) =>
          /\ AcquiresOf(tlast.sent) = {}
          /\ tlast.status = "ok"
          /\ tlast.response.session = tlast.wasSession
          /\ transport.session = tlast.wasSession
    /\ (i # 0 /\ tlast.enumerated[i].session # tlast.wasSession) =>
          /\ Cardinality(AcquiresOf(tlast.sent)) = 1
          /\ tlast.status = "ok" =>
                /\ tlast.response.session \in Tokens \ {tlast.wasSession}
                /\ transport.session = tlast.response.session
                /\ transport.deviceSession = tlast.response.session
          /\ tlast.status = "throw" => transport.session = tlast.wasSession
    /\ (tlast.error = "Device disconnected") <=> (i = 0)
    /\ (i = 0) => ~transport.connected

\* Another client took the device, and refreshSession() acquired it again.
C21_Witness ==
  /\ tlast.op = "refreshSession"
  /\ tlast.status = "ok"
  /\ tlast.wasSession \in Tokens
  /\ Cardinality(AcquiresOf(tlast.sent)) = 1
  /\ transport.session \in Tokens \ {tlast.wasSession}
  /\ transport.deviceSession = transport.session

ExpectedType(op) ==
  CASE op = "getFeatures" -> "Features"
    [] op = "ping" -> "Success"
    [] op = "getEntropy" -> "Entropy"

ConfirmationRequests ==
  {"ButtonRequest", "PinMatrixRequest", "PassphraseRequest", "WordRequest"}

\* C23: getFeatures(), ping() and getEntropy() throw when the device answers with
\* a type that is neither the expected one nor a confirmation request; they
\* return nothing taken from such a response.
C23_WrappersValidateResponseType ==
  (/\ last.op \in {"getFeatures", "ping", "getEntropy"}
   /\ Len(last.received) = 1
   /\ last.received[1] \in DeviceReplies
   /\ last.received[1].type \notin {ExpectedType(last.op)} \cup ConfirmationRequests)
    => /\ last.status = "throw"
       /\ last.response = NoResponse

\* C24: a call() whose HTTP request is answered with an error status throws, for
\* the desktop app and for the bridge daemon; the error body is never returned
\* as a response.
C24_HttpErrorStatusFailsTheCall ==
  (/\ last.op \in CallOps
   /\ connectionType \in {KEEPKEY_DESKTOP, KEEPKEY_BRIDGE}
   /\ \E i \in 1..Len(last.received) : last.received[i] = ErrorBody)
    => /\ last.status = "throw"
       /\ last.response # ErrorBody

\* C25: an error raised below the client during connect() or call() is the
\* error the caller gets: the operation throws, and throws that error.
C25_TransportErrorReachesCallerUnchanged ==
  (last.op \in CallOps \cup {"connect"} /\ last.raised # "none")
    => /\ last.status = "throw"
       /\ last.error = last.raised

\* A bridge connect() whose Initialize request was rejected by fetch().
C25_Witness ==
  /\ last.op = "connect"
  /\ connectionType = KEEPKEY_BRIDGE
  /\ Len(last.sent) = 3
  /\ last.raised = "fetch failed"
  /\ last.status = "throw"

\* C27: with the WebUSB connection kind a call() throws at once, having sent and
\* received nothing; on a client that connect() marked connected the error names
\* the missing browser environment.
C27_WebUsbCallFailsWithoutIo ==
  (connectionType = WEBUSB /\ last.op \in CallOps)
    => /\ last.status = "throw"
       /\ last.response = NoResponse
       /\ last.sent = <<>>
       /\ last.received = <<>>
       /\ last.wasConnected
            => last.error = "WebUSB transport requires browser environment"

\* A ping() on a WebUSB client that a connect() attempt left marked connected.
C27_Witness ==
  /\ connectionType = WEBUSB
  /\ last.op = "ping"
  /\ last.wasConnected
  /\ last.error = "WebUSB transport requires browser environment"

\* C26: every call() completes: a call that awaits its response is, in the end,
\* no longer outstanding, whatever the medium does.
C26_EveryCallCompletes == (pending # NoPending) ~> (pending = NoPending)

\* The emissions of the last operation equal to ev, and the calls of callback
\* for them.
EmissionsOf(ev) == {k \in 1..Len(last.emitted) : last.emitted[k] = ev}
InvocationsOf(callback, ev) ==
  {i \in 1..Len(last.invoked) : last.invoked[i] = Invocation(callback, ev)}

\* C28 as stated: a callback registered for an event when it is emitted is called
\* once per emission, with the payload; a callback not registered is not called;
\* once offEvent has returned the callback is not registered.
C28_SubscribedCallbackRunsOncePerEmission ==
  /\ \A callback \in Callbacks, k \in 1..Len(last.emitted) :
       LET ev == last.emitted[k] IN
       Cardinality(InvocationsOf(callback, ev)) =
         IF RegistrationsOf(listeners, ev.event, callback) # {}
           THEN Cardinality(EmissionsOf(ev)) ELSE 0
  /\ last.op = "offEvent"
       => RegistrationsOf(listeners, last.event, last.callback) = {}

\* C28: a callback is called, with the payload, once per emission for each of
\* its registrations for the event, so once when registered once and not at all
\* when not registered; offEvent removes one registration, so that it leaves
\* none when the callback was registered at most once.
C28_CallbackRunsOncePerRegistration ==
  /\ \A callback \in Callbacks, k \in 1..Len(last.emitted) :
       LET ev == last.emitted[k] IN
       Cardinality(InvocationsOf(callback, ev)) =
         Cardinality(RegistrationsOf(listeners, ev.event, callback))
           * Cardinality(EmissionsOf(ev))
  /\ last.op = "offEvent"
       => Cardinality(RegistrationsOf(listeners, last.event, last.callback)) =
            IF last.registered = 0 THEN 0 ELSE last.registered - 1

\* connect() emitted device:connected with a callback registered once for it.
C28_Witness ==
  /\ last.op = "connect"
  /\ last.status = "ok"
  /\ listeners[CONNECTED] = <<"cb1">>
  /\ last.invoked = <<Invocation("cb1", last.emitted[1])>>

\* The number of callbacks called for the emissions before the k-th.
RECURSIVE InvokedBefore(_)
InvokedBefore(k) ==
  IF k = 1 THEN 0
  ELSE InvokedBefore(k - 1) + Len(listeners[last.emitted[k - 1].event])

\* C29: an operation calls, for each of its emissions in turn, every callback
\* registered for the event, in the order of registration, and no other; the
\* calls are part of the operation, and subscribing or unsubscribing calls
\* nothing, so that no emission reaches a callback subscribed after it.
C29_EmissionIsSynchronousAndOrdered ==
  /\ Len(last.invoked) = InvokedBefore(Len(last.emitted) + 1)
  /\ \A k \in 1..Len(last.emitted) :
       \A n \in 1..Len(listeners[last.emitted[k].event]) :
         last.invoked[InvokedBefore(k) + n] =
           Invocation(listeners[last.emitted[k].event][n], last.emitted[k])
  /\ last.op \in {"onEvent", "offEvent"} => last.invoked = <<>>

\* Two callbacks registered for device:connected, cb2 first, were called in
\* that order by connect().
C29_Witness ==
  /\ last.op = "connect"
  /\ last.status = "ok"
  /\ listeners[CONNECTED] = <<"cb2", "cb1">>
  /\ last.invoked = <<Invocation("cb2", last.emitted[1]),
                      Invocation("cb1", last.emitted[1])>>

\* C30: once the running trigger, listening to device:disconnected, has seen
\* the device connected and the daemon enumerates the device no longer, a poll
\* emits a device:disconnected item with the previous device id (unless the
\* trigger is closed first).
C30_DisconnectIsReported ==
  (/\ connectionType = KEEPKEY_BRIDGE
   /\ trigger.isRunning
   /\ DISCONNECTED \in eventsToListen
   /\ trigger.lastDeviceState # "null"
   /\ ~Listed(device.path))
    ~> (\/ ~trigger.isRunning
        \/ \E i \in 1..Len(trigger.items) :
             /\ trigger.items[i].event = DISCONNECTED
             /\ trigger.items[i].data \in
                  {[previousDeviceId |-> id] : id \in {"device-id", "unknown"}})


----------------------------------------------------------------------------
(* constants/networks.ts: derivation paths *)

\* A JavaScript number below 2^32 is kept as hi * 2^31 + lo with lo < 2^31, so
\* that a hardened index is the index with hi = 1.
Num(hi, lo) == [hi |-> hi, lo |-> lo]
HARDENED_OFFSET == Num(1, 0)
\* What parseInt returns when the text starts with no digit.
NaN == [hi |-> 0, lo |-> 0 - 1]
isNaN(n) == n.lo < 0

\* A string is the sequence of its characters.
DigitChars == <<"0", "1", "2", "3", "4", "5", "6", "7", "8", "9">>
DigitOf(c) == CHOOSE d \in 0..9 : DigitChars[d + 1] = c
IsDigit(c) == \E d \in 0..9 : DigitChars[d + 1] = c

\* Number.prototype.toString() of a whole number below 2^31
RECURSIVE decimal(_)
decimal(n) ==
  IF n < 10 THEN <<DigitChars[n + 1]>>
  ELSE decimal(n \div 10) \o <<DigitChars[(n % 10) + 1]>>
toString(n) == IF isNaN(n) THEN <<"N", "a", "N">> ELSE decimal(n.lo)

\* parseInt(text, 10): the value of the longest prefix of digits, NaN when the
\* text does not start with a digit.
RECURSIVE digitsValue(_, _)
digitsValue(text, acc) ==
  IF text = <<>> \/ ~IsDigit(Head(text)) THEN acc
  ELSE digitsValue(Tail(text), acc * 10 + DigitOf(Head(text)))
parseInt(text) ==
  IF text = <<>> \/ ~IsDigit(Head(text)) THEN NaN
  ELSE Num(0, digitsValue(text, 0))

\* String.prototype.replace(pattern, '') with a two-character string pattern:
\* the first occurrence is removed.
replaceFirst(text, pattern) ==
  LET at == {i \in 1..(Len(text) - 1) :
               text[i] = pattern[1] /\ text[i + 1] = pattern[2]}
  IN  IF at = {} THEN text
      ELSE LET i == CHOOSE j \in at : \A k \in at : j <= k
           IN  SubSeq(text, 1, i - 1) \o SubSeq(text, i + 2, Len(text))

\* String.prototype.split(separator): the empty string splits into [''].
RECURSIVE split(_, _)
split(text, separator) ==
  LET at == {i \in 1..Len(text) : text[i] = separator}
  IN  IF at = {} THEN <<text>>
      ELSE LET i == CHOOSE j \in at : \A k \in at : j <= k
           IN  <<SubSeq(text, 1, i - 1)>>
                 \o split(SubSeq(text, i + 1, Len(text)), separator)

\* Array.prototype.join(separator)
RECURSIVE join(_, _)
join(parts, separator) ==
  IF parts = <<>> THEN <<>>
  ELSE IF Len(parts) = 1 THEN parts[1]
  ELSE parts[1] \o <<separator>> \o join(Tail(parts), separator)

\* part.replace(/['h]/g, ''): every apostrophe and every h is removed.
RECURSIVE stripMarkers(_)
stripMarkers(part) ==
  IF part = <<>> THEN <<>>
  ELSE IF Head(part) \in {"'", "h"} THEN stripMarkers(Tail(part))
  ELSE <<Head(part)>> \o stripMarkers(Tail(part))

\* The callback of map in pathStringToArray
partToNumber(part) ==
  LET isHardened == part # <<>> /\ part[Len(part)] \in {"'", "h"}
      value == parseInt(stripMarkers(part))
  IN  IF isHardened /\ ~isNaN(value)
      THEN Num(value.hi + HARDENED_OFFSET.hi, value.lo)
      ELSE value

pathStringToArray(path) ==
  LET parts == split(replaceFirst(path, <<"m", "/">>), "/")
  IN  [i \in 1..Len(parts) |-> partToNumber(parts[i])]

\* A rendering that drops the hardened marker.
numberToPartUnmarked(n) == toString(Num(0, n.lo))

\* The callback of map in pathArrayToString
numberToPart(n) ==
  LET hardened == n.hi >= HARDENED_OFFSET.hi
      value == IF hardened THEN Num(n.hi - HARDENED_OFFSET.hi, n.lo) ELSE n
  IN  IF hardened THEN toString(value) \o <<"'">> ELSE toString(value)

pathArrayToString(pathArray) ==
  <<"m", "/">> \o join([i \in 1..Len(pathArray) |-> numberToPart(pathArray[i])], "/")

\* The inputs: path arrays of up to MaxPathLen indices below 2^31, each hardened
\* or not, and the path strings m, m/a, m/a/b ... over the same indices with the
\* apostrophe marker.
MaxPathLen == 2
PathIndices == {0, 7, 44, 2147483647}
PathElements == {Num(hi, lo) : hi \in {0, 1}, lo \in PathIndices}
PathArrays == UNION {[1..n -> PathElements] : n \in 0..MaxPathLen}
PathStrings == {<<"m">> \o (IF a = <<>> THEN <<>> ELSE <<"/">>)
                  \o join([i \in 1..Len(a) |-> numberToPart(a[i])], "/") :
                a \in PathArrays}

\* What a utility function was given and what it and the function applied to
\* its result returned.
Evaluation(fn, input) == [fn |-> fn, input |-> input, steps |-> <<>>]

convertToString ==
  /\ util.fn \in {"pathArrayToString", "pathStringToArray"}
  /\ \/ util.fn = "pathArrayToString" /\ util.steps = <<>>
        /\ util' = [util EXCEPT !.steps = <<pathArrayToString(util.input)>>]
     \/ util.fn = "pathStringToArray" /\ Len(util.steps) = 1
        /\ util' = [util EXCEPT !.steps = @ \o <<pathArrayToString(util.steps[1])>>]
  /\ UNCHANGED <<clientFields, daemonVars, listeners, pending, trigger, execution,
                 transportVars, framing>>

convertToArray ==
  /\ util.fn \in {"pathArrayToString", "pathStringToArray"}
  /\ \/ util.fn = "pathStringToArray" /\ util.steps = <<>>
        /\ util' = [util EXCEPT !.steps = <<pathStringToArray(util.input)>>]
     \/ util.fn = "pathArrayToString" /\ Len(util.steps) = 1
        /\ util' = [util EXCEPT !.steps = @ \o <<pathStringToArray(util.steps[1])>>]
  /\ UNCHANGED <<clientFields, daemonVars, listeners, pending, trigger, execution,
                 transportVars, framing>>

PathInputs ==
  {Evaluation("pathArrayToString", a) : a \in PathArrays}
    \cup {Evaluation("pathStringToArray", t) : t \in PathStrings}

----------------------------------------------------------------------------
(* utils/swapUtils.ts: THORChain memos and the PIN attempts *)

\* An optional field is <<>> when it is absent (undefined) and <<value>> when
\* it is present.
Absent == <<>>
Present(value) == <<value>>

\* text || fallback for strings: the empty string is falsy.
orString(text, fallback) == IF text = <<>> THEN fallback ELSE text

\* createThorchainSwapMemo that never writes the fee.
createThorchainSwapMemoWithoutFee(params) ==
  LET base == <<<<"S", "W", "A", "P">>, params.asset, params.destinationAddress>>
      limit == IF params.limit # Absent THEN <<toString(params.limit[1])>>
               ELSE <<<<>>>>
      affiliate == IF params.affiliate # Absent /\ params.affiliate[1] # <<>>
                   THEN <<params.affiliate[1]>>
                   ELSE <<>>
  IN  join(base \o limit \o affiliate, ":")

createThorchainSwapMemo(params) ==
  LET base == <<<<"S", "W", "A", "P">>, params.asset, params.destinationAddress>>
      limit == IF params.limit # Absent THEN <<toString(params.limit[1])>>
               ELSE <<<<>>>>
      fee == IF params.affiliateFee = Absent THEN <<"0">>
             ELSE orString(toString(params.affiliateFee[1]), <<"0">>)
      affiliate == IF params.affiliate # Absent /\ params.affiliate[1] # <<>>
                   THEN <<params.affiliate[1], fee>>
                   ELSE <<>>
  IN  join(base \o limit \o affiliate, ":")

parseThorchainSwapMemo(memo) ==
  LET parts == split(memo, ":")
      \* parts[i] of the code, which counts from 0
      part(i) == IF i + 1 <= Len(parts) THEN Present(parts[i + 1]) ELSE Absent
      truthy(i) == part(i) # Absent /\ part(i)[1] # <<>>
      action == IF parts[1] \in {<<"=">>, <<"s">>} THEN <<"S", "W", "A", "P">>
                ELSE IF parts[1] = <<"+">> THEN <<"A", "D", "D">>
                ELSE IF parts[1] = <<"-">>
                THEN <<"W", "I", "T", "H", "D", "R", "A", "W">>
                ELSE parts[1]
  IN  [action |-> action,
       asset |-> IF truthy(1) THEN part(1)[1] ELSE <<>>,
       destinationAddress |-> part(2),
       limit |-> IF truthy(3) THEN Present(parseInt(part(3)[1])) ELSE Absent,
       affiliate |-> IF truthy(4) THEN part(4) ELSE Absent,
       affiliateFee |-> IF truthy(5) THEN Present(parseInt(part(5)[1])) ELSE Absent]

\* The inputs: parameters whose texts hold no colon, with every combination of
\* limit, affiliate and fee given or left out, and memos that start with each
\* action and shorthand.
MemoAssets == {<<"B", ".", "B">>, <<"E", ".", "U">>}
MemoAddresses == {<<"b", "c", "1">>, <<"0", "x", "a">>}
MemoAmounts == {Absent, Present(Num(0, 0)), Present(Num(0, 95))}
MemoAffiliates == {Absent, Present(<<"t">>), Present(<<"k", "k">>)}
MemoParams ==
  {params \in [asset : MemoAssets, destinationAddress : MemoAddresses,
               limit : MemoAmounts, affiliate : MemoAffiliates,
               affiliateFee : MemoAmounts] :
     params.affiliate = Absent => params.affiliateFee = Absent}
MemoActions == {<<"=">>, <<"s">>, <<"+">>, <<"-">>, <<"S", "W", "A", "P">>}
Memos == {join(<<action, asset, address>>, ":") :
            action \in MemoActions, asset \in MemoAssets, address \in MemoAddresses}

createMemo ==
  /\ util.fn = "createThorchainSwapMemo" /\ util.steps = <<>>
  /\ util' = [util EXCEPT !.steps = <<createThorchainSwapMemo(util.input)>>]
  /\ UNCHANGED <<clientFields, daemonVars, listeners, pending, trigger, execution,
                 transportVars, framing>>

parseMemo ==
  /\ \/ util.fn = "parseThorchainSwapMemo" /\ util.steps = <<>>
        /\ util' = [util EXCEPT !.steps = <<parseThorchainSwapMemo(util.input)>>]
     \/ util.fn = "createThorchainSwapMemo" /\ Len(util.steps) = 1
        /\ util' = [util EXCEPT !.steps = @ \o <<parseThorchainSwapMemo(util.steps[1])>>]
  /\ UNCHANGED <<clientFields, daemonVars, listeners, pending, trigger, execution,
                 transportVars, framing>>

MemoInputs ==
  {Evaluation("createThorchainSwapMemo", params) : params \in MemoParams}
    \cup {Evaluation("parseThorchainSwapMemo", memo) : memo \in Memos}

\* PIN_TIMEOUTS.MAX_ATTEMPTS
MAX_ATTEMPTS == 3
Max(a, b) == IF a >= b THEN a ELSE b

\* The difference without the floor of zero.
attemptsLeftUnclamped(failedAttempts) == MAX_ATTEMPTS - failedAttempts
attemptsLeft(failedAttempts) == Max(0, MAX_ATTEMPTS - failedAttempts)

checkWipeRisk(failedAttempts) ==
  [isAtRisk |-> failedAttempts >= 2,
   attemptsRemaining |-> attemptsLeft(failedAttempts)]

MaxFailedAttempts == 6

evaluateCheckWipeRisk ==
  /\ util.fn = "checkWipeRisk" /\ util.steps = <<>>
  /\ util' = [util EXCEPT !.steps = <<checkWipeRisk(util.input)>>]
  /\ UNCHANGED <<clientFields, daemonVars, listeners, pending, trigger, execution,
                 transportVars, framing>>

WipeRiskInputs == {Evaluation("checkWipeRisk", n) : n \in 0..MaxFailedAttempts}

----------------------------------------------------------------------------
(* KeepKeyClient.resetDevice and recoverDevice: the message they build *)

\* value || fallback for an optional boolean: undefined and false are falsy.
orBoolean(value, fallback) == IF value = Present(TRUE) THEN TRUE ELSE fallback

\* The second argument of callWithButtonAck in resetDevice
resetDeviceMessage(params) ==
  [display_random |-> TRUE,
   passphrase_protection |-> orBoolean(params.passphrase_protection, FALSE),
   pin_protection |-> orBoolean(params.pin_protection, TRUE),
   skip_backup |-> orBoolean(params.skip_backup, FALSE)]

\* The second argument of callWithRecovery in recoverDevice
recoverDeviceMessage(params) ==
  [word_count |-> params.word_count,
   passphrase_protection |-> orBoolean(params.passphrase_protection, FALSE),
   pin_protection |-> orBoolean(params.pin_protection, TRUE),
   enforce_wordlist |-> params.enforce_wordlist # Present(FALSE),
   dry_run |-> orBoolean(params.dry_run, FALSE)]

OptionalBoolean == {Absent, Present(TRUE), Present(FALSE)}
ResetParams == [passphrase_protection : OptionalBoolean,
                pin_protection : OptionalBoolean, skip_backup : OptionalBoolean]
RecoverParams == [word_count : {12, 18, 24},
                  passphrase_protection : OptionalBoolean,
                  pin_protection : OptionalBoolean,
                  enforce_wordlist : {Absent},
                  dry_run : OptionalBoolean]

buildResetDevice ==
  /\ util.fn = "resetDevice" /\ util.steps = <<>>
  /\ util' = [util EXCEPT !.steps = <<resetDeviceMessage(util.input)>>]
  /\ UNCHANGED <<clientFields, daemonVars, listeners, pending, trigger, execution,
                 transportVars, framing>>

buildRecoverDevice ==
  /\ util.fn = "recoverDevice" /\ util.steps = <<>>
  /\ util' = [util EXCEPT !.steps = <<recoverDeviceMessage(util.input)>>]
  /\ UNCHANGED <<clientFields, daemonVars, listeners, pending, trigger, execution,
                 transportVars, framing>>

SetupInputs ==
  {Evaluation("resetDevice", params) : params \in ResetParams}
    \cup {Evaluation("recoverDevice", params) : params \in RecoverParams}

----------------------------------------------------------------------------
(* The specification of the utility functions *)

\* A function is about to be evaluated on one of its inputs; nothing else is
\* at work.
UtilInit ==
  /\ connectionType = KEEPKEY_DESKTOP
  /\ devicePath = ""
  /\ connected = FALSE
  /\ device = NullDevice
  /\ sessionId = NullSession
  /\ awaiting = "none"
  /\ pinFlow = "none"
  /\ last = NoOperation
  /\ listeners = NoListeners
  /\ pending = NoPending
  /\ trigger = NoTrigger
  /\ execution = NoExecution
  /\ daemon = <<>>
  /\ nextToken = 1
  /\ transport = NewTransport("none")
  /\ inflight = NoneInFlight
  /\ granted = {}
  /\ tlast = NoStep
  /\ framing = NoFraming
  /\ util \in PathInputs \cup MemoInputs \cup WipeRiskInputs \cup SetupInputs

UtilNext ==
  \/ convertToString
  \/ convertToArray
  \/ createMemo
  \/ parseMemo
  \/ evaluateCheckWipeRisk
  \/ buildResetDevice
  \/ buildRecoverDevice

UtilSpec == UtilInit /\ [][UtilNext]_vars

----------------------------------------------------------------------------
(* The claims on the utility functions and on the setup messages *)

PathFunctions == {"pathArrayToString", "pathStringToArray"}
\* The path of no index: the array [] and the string m.
EmptyPath ==
  IF util.fn = "pathArrayToString" THEN util.input = <<>> ELSE util.input = <<"m">>

\* C31 as stated: converting a path array to a string and back, or a path
\* string to an array and back, returns what was given, for every path.
C31_PathRoundTrips ==
  (util.fn \in PathFunctions /\ Len(util.steps) = 2)
    => util.steps[2] = util.input

\* C31: converting a path of at least one index to the other form and back
\* returns what was given, a hardened index being the index plus 0x80000000;
\* the path of no index does not come back, its string parses to one NaN.
C31_NonEmptyPathRoundTrips ==
  /\ (util.fn \in PathFunctions /\ Len(util.steps) = 2)
       => IF EmptyPath THEN util.steps[2] # util.input
          ELSE util.steps[2] = util.input
  /\ (util.fn = "pathArrayToString" /\ Len(util.steps) = 2)
       => /\ Len(util.steps[2]) = Max(1, Len(util.input))
          /\ \A i \in 1..Len(util.input) :
               /\ util.steps[2][i].lo = util.input[i].lo
               /\ util.steps[2][i].hi = util.input[i].hi
  /\ (util.fn = "pathArrayToString" /\ util.input = <<>> /\ Len(util.steps) = 2)
       => util.steps = <<<<"m", "/">>, <<NaN>>>>

C31_Witness ==
  /\ util.fn = "pathArrayToString"
  /\ util.input = <<Num(1, 44), Num(0, 2147483647)>>
  /\ util.steps = <<<<"m", "/", "4", "4", "'", "/",
                      "2", "1", "4", "7", "4", "8", "3", "6", "4", "7">>,
                    util.input>>

\* What parsing the memo made of params is expected to return, the fee being
\* `fee`.
ParsedAs(params, fee) ==
  [action |-> <<"S", "W", "A", "P">>,
   asset |-> params.asset,
   destinationAddress |-> Present(params.destinationAddress),
   limit |-> params.limit,
   affiliate |-> params.affiliate,
   affiliateFee |-> fee]

C33_WipeRiskCountsDownToZero ==
  (util.fn = "checkWipeRisk" /\ Len(util.steps) = 1)
    => /\ util.steps[1].attemptsRemaining >= 0
       /\ util.steps[1].attemptsRemaining =
            (IF util.input >= 3 THEN 0 ELSE 3 - util.input)
       /\ util.steps[1].isAtRisk <=> util.input >= 2
       /\ util.input = 0 => ~util.steps[1].isAtRisk
       /\ util.input = 2 => util.steps[1].attemptsRemaining = 1
       /\ util.input = 3 => util.steps[1].attemptsRemaining = 0

C33_Witness ==
  /\ util.fn = "checkWipeRisk"
  /\ util.input = 4
  /\ util.steps = <<[isAtRisk |-> TRUE, attemptsRemaining |-> 0]>>

\* What the message carries for an optional choice of the caller: the value
\* given, or the default when none is given.
Chosen(value, default) == IF value = Absent THEN default ELSE value[1]

\* C36: the message of resetDevice and of recoverDevice carries the caller's
\* pin_protection, true only when it is left out, and the caller's
\* passphrase_protection, skip_backup and dry_run.
C36_SetupMessageCarriesCallersChoices ==
  /\ (util.fn = "resetDevice" /\ Len(util.steps) = 1)
       => /\ util.steps[1].pin_protection = Chosen(util.input.pin_protection, TRUE)
          /\ util.steps[1].passphrase_protection =
               Chosen(util.input.passphrase_protection, FALSE)
          /\ util.steps[1].skip_backup = Chosen(util.input.skip_backup, FALSE)
  /\ (util.fn = "recoverDevice" /\ Len(util.steps) = 1)
       => /\ util.steps[1].pin_protection = Chosen(util.input.pin_protection, TRUE)
          /\ util.steps[1].passphrase_protection =
               Chosen(util.input.passphrase_protection, FALSE)
          /\ util.steps[1].dry_run = Chosen(util.input.dry_run, FALSE)

----------------------------------------------------------------------------
(* KeepKey.execute: connect, one handler per item, disconnect *)

MaxItems == 2
\* The operations of the device resource the executions are drawn from.
NodeOperations == {"getFeatures", "ping", "wipeDevice"}

\* One call of the client as execute saw it settle.
Settled(op) == [op |-> op, status |-> last.status, error |-> last.error]

executeFrame ==
  UNCHANGED <<connectionType, devicePath, connected, device, sessionId, awaiting,
              pinFlow, daemonVars, listeners, pending, trigger, util, transportVars,
              framing>>

\* execute() resumes between two awaits.
resumed == Done("execute", Return(NoResponse, <<>>, <<>>, <<>>))

\* await client.connect()
executeConnect ==
  /\ execution.pc = "connect"
  /\ last.op = "new"
  /\ (connectDesktop \/ connectBridge)

\* execute() once connect() has settled: the loop starts, or the error leaves
\* the try block.
executeConnected ==
  /\ execution.pc = "connect"
  /\ last.op = "connect"
  /\ execution' =
       [execution EXCEPT
          !.calls = @ \o <<Settled("connect")>>,
          !.thrown = IF last.status = "throw" THEN last.error ELSE "none",
          !.pc = IF last.status = "throw" \/ execution.items = 0
                 THEN "finally" ELSE "handler"]
  /\ last' = resumed
  /\ executeFrame

\* result = await executeDeviceOperation(this, client, operation, i)
executeHandler ==
  /\ execution.pc = "handler"
  /\ last.op = "execute"
  /\ \/ execution.operation = "getFeatures" /\ getFeatures
     \/ execution.operation = "ping" /\ ping
     \/ execution.operation = "wipeDevice" /\ wipeDevice

\* The catch of the loop body: the error becomes an item when continueOnFail()
\* holds and is thrown again otherwise.
handled(fields) ==
  LET pushed == [fields EXCEPT
                   !.returnData = @ \o <<IF last.status = "throw"
                                         THEN [error |-> last.error]
                                         ELSE [error |-> "none"]>>,
                   !.i = @ + 1,
                   !.pc = IF fields.i + 1 < fields.items THEN "handler" ELSE "finally"]
  IN  IF last.status = "throw" /\ ~fields.continueOnFail
      THEN [fields EXCEPT !.thrown = last.error, !.pc = "finally"]
      ELSE pushed

\* execute() once the handler of item i has settled.
executeHandled ==
  /\ execution.pc = "handler"
  /\ last.op = execution.operation
  /\ execution' = handled([execution EXCEPT !.calls = @ \o <<Settled("handler")>>])
  /\ last' = resumed
  /\ executeFrame

\* finally { try { await client.disconnect() } ... }
executeDisconnect ==
  /\ execution.pc = "finally"
  /\ last.op = "execute"
  /\ disconnect

\* A finally block that lets the error of disconnect() out.
finallyThrowing(fields) ==
  [fields EXCEPT !.thrown = IF last.status = "throw" THEN last.error ELSE @,
                 !.pc = "done"]
\* catch { } of the finally block: the error of disconnect() is dropped and
\* execute() ends as the try block left it.
finally(fields) == [fields EXCEPT !.pc = "done"]

\* execute() once disconnect() has settled: it returns [returnData] or throws
\* `thrown`.
executeFinished ==
  /\ execution.pc = "finally"
  /\ last.op = "disconnect"
  /\ execution' = finally([execution EXCEPT !.calls = @ \o <<Settled("disconnect")>>])
  /\ UNCHANGED last
  /\ executeFrame

\* execute() has built the client for the bridge or the desktop app and is
\* about to connect.
ExecuteInit ==
  /\ connectionType \in {KEEPKEY_BRIDGE, KEEPKEY_DESKTOP}
  /\ devicePath = ""
  /\ connected = FALSE
  /\ device = NullDevice
  /\ sessionId = NullSession
  /\ awaiting = "none"
  /\ pinFlow = "none"
  /\ last = NoOperation
  /\ daemon \in IF connectionType = KEEPKEY_BRIDGE THEN Enumerations ELSE {<<>>}
  /\ nextToken = 1
  /\ listeners = NoListeners
  /\ pending = NoPending
  /\ trigger = NoTrigger
  /\ \E operation \in NodeOperations, items \in 0..MaxItems, continueOnFail \in BOOLEAN :
       execution = [NoExecution EXCEPT !.pc = "connect",
                                       !.operation = operation,
                                       !.items = items,
                                       !.continueOnFail = continueOnFail]
  /\ util = NoUtil
  /\ transport = NewTransport("none")
  /\ inflight = NoneInFlight
  /\ granted = {}
  /\ tlast = NoStep
  /\ framing = NoFraming

ExecuteNext ==
  \/ executeConnect
  \/ executeConnected
  \/ executeHandler
  \/ executeHandled
  \/ executeDisconnect
  \/ executeFinished

ExecuteSpec == ExecuteInit /\ [][ExecuteNext]_vars

----------------------------------------------------------------------------
(* The claims on the node's execution *)

CallsOf(op) == {j \in 1..Len(execution.calls) : execution.calls[j].op = op}
\* The error the try block of execute() ended with, "none" when it ended well.
OriginalError ==
  LET calls == execution.calls
      failed == {j \in CallsOf("handler") : calls[j].status = "throw"}
  IN  IF calls # <<>> /\ calls[1].status = "throw" THEN calls[1].error
      ELSE IF ~execution.continueOnFail /\ failed # {}
      THEN calls[CHOOSE j \in failed : TRUE].error
      ELSE "none"

\* C34: in every execution connect() has returned before a handler runs, and
\* disconnect() is called exactly once, after the last handler, whether the
\* handlers return, one throws or connect throws; an error of that disconnect
\* is dropped and the execution ends with the error of connect or of the
\* handler, or returns one item per input.
C34_ExecuteConnectsFirstAndDisconnectsOnce ==
  /\ \A j \in CallsOf("handler") :
       /\ j > 1
       /\ execution.calls[1] = [op |-> "connect", status |-> "ok", error |-> "none"]
  /\ (execution.pc = "handler" /\ last.op \in NodeOperations) => last.wasConnected
  /\ CallsOf("connect") \subseteq {1}
  /\ execution.pc # "done" => CallsOf("disconnect") = {}
  /\ execution.pc = "done"
       => /\ CallsOf("disconnect") = {Len(execution.calls)}
          /\ CallsOf("connect") = {1}
          /\ execution.thrown = OriginalError
          /\ execution.thrown = "none"
               => /\ Len(execution.returnData) = execution.items
                  /\ Cardinality(CallsOf("handler")) = execution.items

\* A handler threw, the execution does not continue on failure, and the
\* disconnect after it threw as well.
C34_Witness ==
  /\ execution.pc = "done"
  /\ CallsOf("handler") # {}
  /\ execution.calls[Len(execution.calls)].op = "disconnect"
  /\ execution.calls[Len(execution.calls)].status = "throw"
  /\ execution.thrown # "none"
  /\ execution.thrown # execution.calls[Len(execution.calls)].error

----------------------------------------------------------------------------
(* The claims on the handle, the button acknowledgement and the shutdown *)

\* C35: after a connect() that failed at any step, the initialization call
\* included, isConnected() is false, getDevice() is null and the client holds
\* no session of the bridge daemon.
C35_FailedConnectLeavesNoHandle ==
  (last.op = "connect" /\ last.status = "throw")
    => /\ ~isConnected
       /\ getDevice = NullDevice
       /\ ~Leased(sessionId, daemon)

ButtonAcknowledged == {"applySettings", "wipeDevice", "resetDevice"}

\* C37: when applySettings, wipeDevice or resetDevice returns, every
\* ButtonRequest of the device has been acknowledged: the last response is no
\* ButtonRequest and the device awaits no button acknowledgement.
C37_ButtonRequestsAreAllAcknowledged ==
  (last.op \in ButtonAcknowledged /\ last.status = "ok")
    => /\ last.response.type # "ButtonRequest"
       /\ awaiting # "button"

\* The device:connected items among the items of the current poll.
ConnectedItems == {i \in 1..Len(trigger.items) : trigger.items[i].event = CONNECTED}

\* C38: a poll whose connect() and getFeatures() succeeded emits, when the
\* selected event is deviceConnected or all, one device:connected item for a
\* device not reported before and never two for the same connect.
C38_ConnectionIsReportedOnce ==
  (/\ CONNECTED \in eventsToListen
   /\ trigger.pc \in {"poll", "stopped"}
   /\ last.op = "getFeatures"
   /\ last.status = "ok")
    => Cardinality(ConnectedItems) <= 1

\* The items emitted since closeFunction() completed: those of the poll that
\* was under way, none when the trigger was closed between two polls.
ItemsSinceClose == IF trigger.pc = "closed" THEN <<>> ELSE trigger.items

\* C39: once closeFunction() has completed, the trigger emits no item and the
\* client is not connected, also when it was invoked while the connect() of a
\* poll was in flight.
C39_ShutdownIsFinal ==
  trigger.closed
    => /\ ItemsSinceClose = <<>>
       /\ ~isConnected

\* C40: once stopListening() has returned, the listen loop sends no /listen
\* request and emits no event, whether it was called while the request was in
\* flight or by a handler of an event of the loop.
C40_StopListeningSilencesTheLoop ==
  /\ (tlast.op = "listenResponse" /\ tlast.answer = "aborted")
       => tlast.emitted = <<>> /\ tlast.sent = <<>>
  /\ (tlast.op = "listenResponse" /\ tlast.arg = "stopListening")
       => /\ tlast.emitted = handleListenResponse(tlast.response)
          /\ tlast.sent = <<>>

====
